---- MODULE Spec2Model ----
(***************************************************************************)
(* Verification model of src/src/App.tsx.  The file holds two variants of  *)
(* the application:                                                        *)
(*   - the character sheet (lines 1-959): parseDiceNotation, rollDice,     *)
(*     onRollManual, rollJudge, parts, save/load;                          *)
(*   - the simulator (lines 960-1988): parse1d10, roll1d10, outcomeText,   *)
(*     doMadnessCheck, loseTreasure, runScene, relations.                  *)
(* A text is a sequence of one-character strings.                          *)
(***************************************************************************)
EXTENDS Integers, Sequences, FiniteSets, TLC

VARIABLES
    \* ---- dice notation parser, driven on typed texts ----
    text,        \* the text handed to parseDiceNotation
    typed,       \* how that text was put together (count, sides, modifier, form)
    parsed,      \* parseDiceNotation(text), or Null
    reparsed,    \* parseDiceNotation(parsed.norm), or Null
    ppc,         \* "typed" -> "parsed" -> "reparsed"
    \* ---- character sheet (first App) ----
    diceInput,   \* useState("2d6+1"): the manual notation
    character,   \* CharacterSheet: diceBonus and judgePresets
    lastRoll,    \* the DiceResult shown last, or Null
    logs,        \* LogEntry[], newest first
    rolled,      \* the last call of rollDice: its notation, the random draws, its result
    parts,           \* Parts: part key -> "ok" | "damaged" | "broken"
    gmTables,        \* GMTable[]: id, name, items
    selectedTableId, \* the id of the table picked in the GM helper, or NoTable
    nextTableId,     \* uid(): the next fresh table id
    defaultTableId,  \* defaultGMTables[0].id, drawn when the page loads
    jsonBox,         \* the text of the save/load box
    storage,         \* localStorage[STORAGE_KEY], or NoItem
    \* ---- simulator (second App) ----
    characters,    \* Character[]: id, treasureCount, mentalMod, madness (the other fields are free text)
    nextId,        \* uid(): the next fresh character id
    sceneType,     \* "explore" | "battle" | "negotiate" | "horror"  (탐색, 전투, 교섭, 공포)
    checksInScene, \* useState(3)
    mode,          \* "setup" | "run": which layout, so which controls, the page shows
    log,           \* LogEntry[], oldest first
    checks,        \* the checks the last handler resolved, in order: kind, character given, roll, outcome
    simParts,      \* Parts of the simulator, or Undefined once a load has set it so
    relations,     \* Record<"a|b", RelationLevel>: a function on pairs <<a, b>> of ids, a < b
    relA,          \* the id the select A of the relations panel holds, or NoId
    relB,          \* the id the select B of the relations panel holds, or NoId
    diceNotation,  \* useState("1d10+0")
    simLastRoll,   \* the simulator's lastRoll, or Undefined
    simJsonBox,    \* the text of the simulator's JSON box
    saved,         \* localStorage[LS_KEY], or NoItem
    \* ---- the page ----
    variant        \* "sheet" | "simulator": which of the two App variants the page mounts

pvars == <<text, typed, parsed, reparsed, ppc>>

svars == <<diceInput, character, lastRoll, logs, rolled>>

mvars == <<characters, nextId, sceneType, checksInScene, mode, log, checks>>

\* the rest of the character sheet's state
xvars == <<parts, gmTables, selectedTableId, nextTableId, defaultTableId, jsonBox, storage>>

\* the rest of the simulator's state
yvars == <<simParts, relations, relA, relB, diceNotation, simLastRoll, simJsonBox, saved>>

vars == <<pvars, svars, mvars, xvars, yvars, variant>>

(***************************************************************************)
(* Helpers on texts                                                        *)
(***************************************************************************)
Null == [null |-> TRUE]

Digits == <<"0", "1", "2", "3", "4", "5", "6", "7", "8", "9">>

IsDigit(ch) == \E i \in 1..10 : Digits[i] = ch

DigitVal(ch) == (CHOOSE i \in 1..10 : Digits[i] = ch) - 1

IsSpace(ch) == ch = " "

\* String.prototype.toLowerCase on one character of the modelled alphabet
LowerChar(ch) == IF ch = "D" THEN "d" ELSE IF ch = "X" THEN "x" ELSE ch

ToLower(s) == [i \in 1..Len(s) |-> LowerChar(s[i])]

\* s.trim() followed by .replace(/\s+/g, ""): no white space is left anywhere
RemoveSpaces(s) == SelectSeq(s, LAMBDA ch : ~IsSpace(ch))

\* Number(str) on a string of decimal digits (leading zeros allowed); Number("") is 0
RECURSIVE DigitsToNat(_)
DigitsToNat(s) ==
    IF Len(s) = 0 THEN 0
    ELSE 10 * DigitsToNat(SubSeq(s, 1, Len(s) - 1)) + DigitVal(s[Len(s)])

\* Number(str) on [+-]digits
SignedToInt(s) ==
    IF s[1] = "-" THEN 0 - DigitsToNat(Tail(s)) ELSE DigitsToNat(Tail(s))

\* `${n}` for a natural number n
RECURSIVE NatToText(_)
NatToText(n) ==
    IF n < 10 THEN <<Digits[n + 1]>>
    ELSE NatToText(n \div 10) \o <<Digits[(n % 10) + 1]>>

\* `${n}` for an integer n
IntToText(n) == IF n < 0 THEN <<"-">> \o NatToText(0 - n) ELSE NatToText(n)

\* length of the longest prefix of s made of digits: what a greedy \d* takes
RECURSIVE DigitRun(_)
DigitRun(s) ==
    IF Len(s) = 0 \/ ~IsDigit(s[1]) THEN 0 ELSE 1 + DigitRun(Tail(s))

AllDigits(s) == \A i \in 1..Len(s) : IsDigit(s[i])

(***************************************************************************)
(* parseDiceNotation                                                       *)
(***************************************************************************)
MaxCount == 200
MaxSides == 100000

\* the optional group ([+-]\d+)? and the end of the text
MatchTail(nStr, sidesStr, tl) ==
    IF Len(tl) = 0
    THEN [nStr |-> nStr, sidesStr |-> sidesStr, modStr |-> <<>>]
    ELSE IF tl[1] \in {"+", "-"} /\ Len(tl) >= 2 /\ AllDigits(Tail(tl))
    THEN [nStr |-> nStr, sidesStr |-> sidesStr, modStr |-> tl]
    ELSE Null

\* the group (\d+): the b digits that follow the "d", at least one
MatchSides(nStr, rest, b) ==
    IF b = 0 THEN Null
    ELSE MatchTail(nStr, SubSeq(rest, 1, b), SubSeq(rest, b + 1, Len(rest)))

\* the group (\d*), a digits long, then the letter "d"
MatchCount(input, a) ==
    IF Len(input) < a + 1 \/ input[a + 1] # "d" THEN Null
    ELSE MatchSides(SubSeq(input, 1, a), SubSeq(input, a + 2, Len(input)),
                    DigitRun(SubSeq(input, a + 2, Len(input))))

\* input.match(/^(\d*)d(\d+)([+-]\d+)?$/i): the three groups, or Null
MatchDice(input) == MatchCount(input, DigitRun(input))

\* NormText with the "+" of a positive modifier forgotten
NormText_noPlus(n, sides, mod) ==
    NatToText(n) \o <<"d">> \o NatToText(sides) \o (IF mod = 0 THEN <<>> ELSE IntToText(mod))

\* NormText with "+" put before every modifier, a negative one too
NormText_plusAlways(n, sides, mod) ==
    NatToText(n) \o <<"d">> \o NatToText(sides)
        \o (IF mod = 0 THEN <<>> ELSE <<"+">> \o IntToText(mod))

\* the normalized notation: count explicit, modifier signed or left out when 0
NormText(n, sides, mod) ==
    NatToText(n) \o <<"d">> \o NatToText(sides)
        \o (IF mod = 0 THEN <<>> ELSE IF mod > 0 THEN <<"+">> \o IntToText(mod) ELSE IntToText(mod))

\* Validate with "n < 0" for "n <= 0": a count of 0 gets through
Validate_zeroCount(n, sides, mod) ==
    IF n < 0 \/ n > MaxCount THEN Null
    ELSE IF sides <= 1 \/ sides > MaxSides THEN Null
    ELSE [n |-> n, m |-> sides, mod |-> mod, norm |-> NormText(n, sides, mod)]

\* the range tests on the converted numbers, and the result
Validate(n, sides, mod) ==
    IF n <= 0 \/ n > MaxCount THEN Null
    ELSE IF sides <= 1 \/ sides > MaxSides THEN Null
    ELSE [n |-> n, m |-> sides, mod |-> mod, norm |-> NormText(n, sides, mod)]

\* Convert with Number("") = 0 taken for an omitted count
Convert_noDefault(m) ==
    IF m = Null THEN Null
    ELSE Validate(DigitsToNat(m.nStr), DigitsToNat(m.sidesStr),
                  IF m.modStr # <<>> THEN SignedToInt(m.modStr) ELSE 0)

\* the groups of a match turned into numbers: the count is 1 when its group is empty
Convert(m) ==
    IF m = Null THEN Null
    ELSE Validate(IF m.nStr = <<>> THEN 1 ELSE DigitsToNat(m.nStr),
                  DigitsToNat(m.sidesStr),
                  IF m.modStr # <<>> THEN SignedToInt(m.modStr) ELSE 0)

parseDiceNotation(inputRaw) == Convert(MatchDice(RemoveSpaces(ToLower(inputRaw))))

(***************************************************************************)
(* Typed texts: a count, a number of sides and a modifier written out in   *)
(* one of several styles, then possibly damaged so that it no longer has   *)
(* the form [count]d<sides>[+|-modifier].                                  *)
(***************************************************************************)
Omitted == 0 - 1
MaxModInput == 25

CountInputs == {Omitted, 0, 1, 2, 7, MaxCount, MaxCount + 1}
SidesInputs == {0, 1, 2, 6, 10, MaxSides, MaxSides + 1}
ModSigns == {"none", "+", "-"}
ModInputs == {0, 1, 13, MaxModInput}
Styles == {"plain", "upper", "spaced", "zeros"}
Damages == {"none", "xFront", "xAfterD", "xEnd", "dotInCount", "noD", "noSides",
            "signOnly", "minusCount", "twoSigns", "twoD", "wordMod"}

CountText(c, style) ==
    IF c = Omitted THEN <<>>
    ELSE (IF style = "zeros" THEN <<"0">> ELSE <<>>) \o NatToText(c)

SidesText(s, style) == (IF style = "zeros" THEN <<"0", "0">> ELSE <<>>) \o NatToText(s)

ModText(sign, k) == IF sign = "none" THEN <<>> ELSE <<sign>> \o NatToText(k)

Sp(style) == IF style = "spaced" THEN <<" ">> ELSE <<>>

DChar(style) == IF style = "upper" THEN <<"D">> ELSE <<"d">>

TypedText(c, s, sign, k, style, damage) ==
    LET ct == CountText(c, style)
        st == SidesText(s, style)
        mt == ModText(sign, k)
        d  == DChar(style)
        sp == Sp(style)
    IN  CASE damage = "none"       -> sp \o ct \o sp \o d \o st \o sp \o mt \o sp
          [] damage = "xFront"     -> <<"x">> \o ct \o d \o st \o mt
          [] damage = "xAfterD"    -> ct \o d \o <<"x">> \o st \o mt
          [] damage = "xEnd"       -> ct \o d \o st \o mt \o sp \o <<"X">>
          [] damage = "dotInCount" -> ct \o <<".", "5">> \o d \o st \o mt
          [] damage = "noD"        -> ct \o sp \o st \o mt
          [] damage = "noSides"    -> ct \o d \o mt
          [] damage = "signOnly"   -> ct \o d \o st \o <<"+">>
          [] damage = "minusCount" -> <<"-">> \o ct \o d \o st \o mt
          [] damage = "twoSigns"   -> ct \o d \o st \o <<"+", "-">> \o NatToText(k)
          [] damage = "twoD"       -> ct \o d \o d \o st \o mt
          [] damage = "wordMod"    -> ct \o d \o st \o <<"+", "x">>

TypedValue(c) == IF c = Omitted THEN 1 ELSE c

TypedMod(sign, k) == IF sign = "none" THEN 0 ELSE IF sign = "-" THEN 0 - k ELSE k

ParseIdle ==
    /\ text = <<>> /\ typed = Null /\ parsed = Null /\ reparsed = Null /\ ppc = "idle"

TypedInit ==
    /\ \E c \in CountInputs, s \in SidesInputs, sign \in ModSigns, k \in ModInputs,
          style \in Styles, damage \in Damages :
          /\ typed = [count |-> c, sides |-> s, sign |-> sign, k |-> k,
                      style |-> style, damage |-> damage]
          /\ text = TypedText(c, s, sign, k, style, damage)
    /\ parsed = Null
    /\ reparsed = Null
    /\ ppc = "typed"

\* a caller hands the typed text to parseDiceNotation
Parse ==
    /\ ppc = "typed"
    /\ parsed' = parseDiceNotation(text)
    /\ ppc' = "parsed"
    /\ UNCHANGED <<text, typed, reparsed, svars, mvars, xvars, yvars, variant>>

\* the normalized text goes through parseDiceNotation again (rollJudge: rollDice(baseParsed.norm))
Reparse ==
    /\ ppc = "parsed"
    /\ parsed # Null
    /\ reparsed' = parseDiceNotation(parsed.norm)
    /\ ppc' = "reparsed"
    /\ UNCHANGED <<text, typed, parsed, svars, mvars, xvars, yvars, variant>>

(***************************************************************************)
(* Character sheet: rollDice, onRollManual, rollJudge                      *)
(***************************************************************************)
RandDen == 3     \* Math.random() yields u / RandDen for a u in 0..RandDen-1
MaxLogs == 2     \* handlers are not explored once the log holds this many entries

RECURSIVE Sum(_)
Sum(seq) == IF Len(seq) = 0 THEN 0 ELSE seq[1] + Sum(Tail(seq))

\* 1 + Math.floor(Math.random() * m), Math.random() being u / RandDen
Die(u, m) == 1 + ((u * m) \div RandDen)

\* the number of dice of a parsed notation (none when it did not parse)
CountOf(p) == IF p = Null THEN 0 ELSE p.n

\* how many times rollDice(notation) calls Math.random()
DrawCount(notation) == CountOf(parseDiceNotation(notation))

Draws(k) == [1..k -> 0..(RandDen - 1)]

\* RollResult that adds the sheet's global bonus itself (it reads the character)
RollResult_readsBonus(p, rolls) ==
    [notation |-> p.norm, rolls |-> rolls, sides |-> p.m,
     modifier |-> p.mod + character.diceBonus,
     total |-> Sum(rolls) + p.mod + character.diceBonus]

\* the DiceResult of the parsed notation p and its rolls
RollResult(p, rolls) ==
    [notation |-> p.norm, rolls |-> rolls, sides |-> p.m,
     modifier |-> p.mod, total |-> Sum(rolls) + p.mod]

\* RollParsed with the "1 +" of a die forgotten: faces 0..m-1
RollParsed_zeroBased(p, draws) ==
    IF p = Null THEN Null
    ELSE RollResult(p, [i \in 1..p.n |-> (draws[i] * p.m) \div RandDen])

\* the loop of rollDice, the values of Math.random() being draws[1], draws[2], ...
RollParsed(p, draws) ==
    IF p = Null THEN Null
    ELSE RollResult(p, [i \in 1..p.n |-> Die(draws[i], p.m)])

rollDice(notation, draws) == RollParsed(parseDiceNotation(notation), draws)

JudgeKeys == {"attack"}

defaultJudgePresets == [key \in JudgeKeys |-> [base |-> <<"2", "d", "6">>, bonus |-> 0]]

defaultCharacter == [diceBonus |-> 0, judgePresets |-> defaultJudgePresets]

LogEntry(tag, what, arg) == [tag |-> tag, what |-> what, arg |-> arg]

\* addLog with the new entry put at the end
addLog_atEnd(tag, what, arg, prev) == prev \o <<LogEntry(tag, what, arg)>>

\* addLog: the new entry goes in front
addLog(tag, what, arg, prev) == <<LogEntry(tag, what, arg)>> \o prev

\* ---- JSON texts: what JSON.stringify writes and JSON.parse reads back ----
Undefined == [undefined |-> TRUE]

NoItem == [text |-> "none"]       \* localStorage.getItem(...) === null

EmptyText == [text |-> "empty"]   \* ""

Garbage == [text |-> "garbage"]   \* a text JSON.parse throws on

JsonText(doc) == [text |-> "json", doc |-> doc]

\* a JSON text that is not an object: null, 5
ScalarText == JsonText([scalar |-> TRUE])

\* JSON.stringify(obj): a key whose value is undefined is left out
\* (optional: the keys of obj that may hold undefined)
JsonStringify(obj, optional) ==
    JsonText([k \in {x \in DOMAIN obj : ~(x \in optional /\ obj[x] = Undefined)} |-> obj[k]])

\* safeJsonParse(s)
safeJsonParse(t) ==
    IF t.text = "json" THEN [ok |-> TRUE, value |-> t.doc] ELSE [ok |-> FALSE]

\* obj.key ?? dflt, for a parsed object
OrDefault(obj, key, dflt) == IF key \in DOMAIN obj THEN obj[key] ELSE dflt

\* { ...a, ...b }
Spread(a, b) == [k \in (DOMAIN a) \cup (DOMAIN b) |-> IF k \in DOMAIN b THEN b[k] ELSE a[k]]

\* ---- parts ----
PartKeys == {"head", "body", "armL", "armR", "legL", "legR"}

PartStates == {"ok", "damaged", "broken"}

defaultParts == [k \in PartKeys |-> "ok"]

\* the toggle saturating at broken
NextPartState_saturates(cur) ==
    IF cur = "ok" THEN "damaged" ELSE "broken"

\* togglePart: cur === "ok" ? "damaged" : cur === "damaged" ? "broken" : "ok"
NextPartState(cur) ==
    IF cur = "ok" THEN "damaged" ELSE IF cur = "damaged" THEN "broken" ELSE "ok"

\* ---- GM tables ----
MaxTableIds == 2   \* uid() hands out table ids up to this

NoTable == 0 - 1   \* selectedTableId === ""

GMTable(id, name, items) == [id |-> id, name |-> name, items |-> items]

defaultGMTables(id) == <<GMTable(id, "sample", <<"noise", "lost", "short">>)>>

\* buildState()
buildState(p, l, c, g) == [version |-> 2, parts |-> p, logs |-> l, character |-> c, gmTables |-> g]

\* the second effect: localStorage.setItem(STORAGE_KEY, JSON.stringify(buildState()))
\* after the render that follows a handler
AutoSaved == storage' = JsonStringify(buildState(parts', logs', character', gmTables'), {})

\* what a handler of the sheet that touches none of them leaves alone
SheetKept ==
    /\ UNCHANGED <<parts, gmTables, selectedTableId, nextTableId, defaultTableId, jsonBox>>
    /\ AutoSaved

\* the state after construction (useState initializers, defaultState) and the
\* first run of the effects on an empty localStorage
SheetInit ==
    /\ diceInput = <<"2", "d", "6", "+", "1">>
    /\ character = defaultCharacter
    /\ lastRoll = Null
    /\ logs = <<LogEntry("SYSTEM", "sessionStart", <<>>)>>
    /\ rolled = Null
    /\ parts = defaultParts
    /\ gmTables = defaultGMTables(0)
    /\ selectedTableId = 0
    /\ defaultTableId = 0
    /\ nextTableId = 1
    /\ jsonBox = EmptyText
    /\ storage = JsonStringify(buildState(defaultParts, <<LogEntry("SYSTEM", "sessionStart", <<>>)>>,
                                          defaultCharacter, defaultGMTables(0)), {})

\* Patched with the bonus added to the total only
Patched_totalOnly(res, bonus) ==
    IF bonus = 0 THEN res
    ELSE [res EXCEPT !.total = res.total + bonus]

\* the result with a bonus folded into modifier and total (left alone when the bonus is 0)
Patched(res, bonus) ==
    IF bonus = 0 THEN res
    ELSE [res EXCEPT !.total = res.total + bonus, !.modifier = res.modifier + bonus]

\* the notation field is edited
SetDiceInput(texts) ==
    /\ \E t \in texts : diceInput' = t
    /\ UNCHANGED <<character, lastRoll, logs, rolled, pvars, mvars, yvars, variant>>
    /\ SheetKept

\* the global bonus field is edited: Number(e.target.value || 0)
SetDiceBonus(values) ==
    /\ \E b \in values : character' = [character EXCEPT !.diceBonus = b]
    /\ UNCHANGED <<diceInput, lastRoll, logs, rolled, pvars, mvars, yvars, variant>>
    /\ SheetKept

\* a judge preset's base formula is edited
SetJudgeBase(bases) ==
    /\ \E key \in JudgeKeys, base \in bases :
          character' = [character EXCEPT !.judgePresets[key].base = base]
    /\ UNCHANGED <<diceInput, lastRoll, logs, rolled, pvars, mvars, yvars, variant>>
    /\ SheetKept

\* a judge preset's bonus is edited: Number(e.target.value || 0)
SetJudgeBonus(values) ==
    /\ \E key \in JudgeKeys, b \in values :
          character' = [character EXCEPT !.judgePresets[key].bonus = b]
    /\ UNCHANGED <<diceInput, lastRoll, logs, rolled, pvars, mvars, yvars, variant>>
    /\ SheetKept

\* onRollManual once rollDice has returned res
ManualRolled(res, draws) ==
    /\ rolled' = [notation |-> diceInput, draws |-> draws, res |-> res]
    /\ IF res = Null
       THEN /\ logs' = addLog("WARN", "diceError", diceInput, logs)
            /\ UNCHANGED lastRoll
       ELSE /\ lastRoll' = Patched(res, character.diceBonus)
            /\ logs' = addLog("DICE", "roll", res.notation, logs)

onRollManual ==
    /\ Len(logs) < MaxLogs
    /\ \E draws \in Draws(DrawCount(diceInput)) : ManualRolled(rollDice(diceInput, draws), draws)
    /\ UNCHANGED <<diceInput, character, pvars, mvars, yvars, variant>>
    /\ SheetKept

\* rollJudge once rollDice(baseParsed.norm) has returned res
JudgeRolled(key, preset, norm, res, draws) ==
    /\ rolled' = [notation |-> norm, draws |-> draws, res |-> res]
    /\ IF res = Null
       THEN /\ logs' = addLog("WARN", "judgeRollFailed", key, logs)
            /\ UNCHANGED lastRoll
       ELSE /\ lastRoll' = Patched(res, character.diceBonus + preset.bonus)
            /\ logs' = addLog("DICE", "judge", res.notation, logs)

\* rollJudge once parseDiceNotation(preset.base) has returned baseParsed
JudgeParsed(key, preset, baseParsed) ==
    IF baseParsed = Null
    THEN /\ logs' = addLog("WARN", "judgeBaseError", preset.base, logs)
         /\ UNCHANGED <<lastRoll, rolled>>
    ELSE \E draws \in Draws(DrawCount(baseParsed.norm)) :
            JudgeRolled(key, preset, baseParsed.norm, rollDice(baseParsed.norm, draws), draws)

rollJudge(key) ==
    /\ Len(logs) < MaxLogs
    /\ JudgeParsed(key, character.judgePresets[key],
                   parseDiceNotation(character.judgePresets[key].base))
    /\ UNCHANGED <<diceInput, character, pvars, mvars, yvars, variant>>
    /\ SheetKept

clearLog ==
    /\ logs' = <<LogEntry("SYSTEM", "logCleared", <<>>)>>
    /\ UNCHANGED <<diceInput, character, lastRoll, rolled, pvars, mvars, yvars, variant>>
    /\ SheetKept

(***************************************************************************)
(* Character sheet: parts, GM tables, save/load, auto-save                 *)
(***************************************************************************)
\* togglePart(key), key being one of the buttons drawn from Object.entries(parts)
togglePart(keys) ==
    /\ Len(logs) < MaxLogs
    /\ \E key \in keys \cap DOMAIN parts :
          /\ parts' = [parts EXCEPT ![key] = NextPartState(parts[key])]
          /\ logs' = addLog("PART", "part", <<key>>, logs)
    /\ UNCHANGED <<diceInput, character, lastRoll, rolled, pvars, mvars, yvars, variant>>
    /\ UNCHANGED <<gmTables, selectedTableId, nextTableId, defaultTableId, jsonBox>>
    /\ AutoSaved

gmAddNewTable ==
    /\ Len(logs) < MaxLogs
    /\ nextTableId <= MaxTableIds
    /\ gmTables' = <<GMTable(nextTableId, "new", <<>>)>> \o gmTables
    /\ selectedTableId' = nextTableId
    /\ nextTableId' = nextTableId + 1
    /\ logs' = addLog("GM", "tableAdded", <<>>, logs)
    /\ UNCHANGED <<diceInput, character, lastRoll, rolled, pvars, mvars, yvars, variant>>
    /\ UNCHANGED <<parts, defaultTableId, jsonBox>>
    /\ AutoSaved

\* gmDeleteTable, a table being selected (it returns at once when none is)
gmDeleteTable ==
    /\ Len(logs) < MaxLogs
    /\ \E i \in 1..Len(gmTables) : gmTables[i].id = selectedTableId
    /\ gmTables' = SelectSeq(gmTables, LAMBDA t : t.id # selectedTableId)
    /\ selectedTableId' = NoTable
    /\ logs' = addLog("GM", "tableDeleted", <<>>, logs)
    /\ UNCHANGED <<diceInput, character, lastRoll, rolled, pvars, mvars, yvars, variant>>
    /\ UNCHANGED <<parts, nextTableId, defaultTableId, jsonBox>>
    /\ AutoSaved

\* applyState throws on it: !st || typeof st !== "object"
IsObject(v) == "scalar" \notin DOMAIN v

\* applyState: { ...defaultCharacter(), ...c, judgePresets: { ...defaultJudgePresets(), ...c.judgePresets } }
mergeCharacter(c) ==
    [Spread(defaultCharacter, c) EXCEPT
        !.judgePresets = Spread(defaultJudgePresets, OrDefault(c, "judgePresets", <<>>))]

\* applyState with the stored parts dropped for the defaults
applyState_defaultParts(st, tables) ==
    [parts |-> defaultParts,
     logs |-> OrDefault(st, "logs", <<>>),
     character |-> mergeCharacter(OrDefault(st, "character", defaultCharacter)),
     gmTables |-> OrDefault(st, "gmTables", tables)]

\* applyState(st): what it hands to setParts, setLogs, setCharacter, setGMTables
\* (tables: defaultGMTables of this page)
applyState(st, tables) ==
    [parts |-> OrDefault(st, "parts", defaultParts),
     logs |-> OrDefault(st, "logs", <<>>),
     character |-> mergeCharacter(OrDefault(st, "character", defaultCharacter)),
     gmTables |-> OrDefault(st, "gmTables", tables)]

\* the four setters of applyState, then addLog(tag, ...)
Applied(st, tag, what) ==
    /\ parts' = st.parts
    /\ logs' = addLog(tag, what, <<>>, st.logs)
    /\ character' = st.character
    /\ gmTables' = st.gmTables

\* the save/load box is edited
SetJsonBox(texts) ==
    /\ \E t \in texts : jsonBox' = t
    /\ UNCHANGED <<diceInput, character, lastRoll, logs, rolled, pvars, mvars, yvars, variant>>
    /\ UNCHANGED <<parts, gmTables, selectedTableId, nextTableId, defaultTableId>>
    /\ AutoSaved

exportJson ==
    /\ Len(logs) < MaxLogs
    /\ jsonBox' = JsonStringify(buildState(parts, logs, character, gmTables), {})
    /\ logs' = addLog("SAVE", "exported", <<>>, logs)
    /\ UNCHANGED <<diceInput, character, lastRoll, rolled, pvars, mvars, yvars, variant>>
    /\ UNCHANGED <<parts, gmTables, selectedTableId, nextTableId, defaultTableId>>
    /\ AutoSaved

\* importJson once safeJsonParse(jsonBox) has returned
ImportParsed(got) ==
    IF ~got.ok
    THEN /\ logs' = addLog("WARN", "importFailed", <<>>, logs)
         /\ UNCHANGED <<parts, character, gmTables>>
    ELSE IF ~IsObject(got.value)
    THEN /\ logs' = addLog("WARN", "applyFailed", <<>>, logs)
         /\ UNCHANGED <<parts, character, gmTables>>
    ELSE Applied(applyState(got.value, defaultGMTables(defaultTableId)), "LOAD", "imported")

importJson ==
    /\ Len(logs) < MaxLogs
    /\ ImportParsed(safeJsonParse(jsonBox))
    /\ UNCHANGED <<diceInput, lastRoll, rolled, pvars, mvars, yvars, variant>>
    /\ UNCHANGED <<selectedTableId, nextTableId, defaultTableId, jsonBox>>
    /\ AutoSaved

resetAll ==
    /\ parts' = defaultParts
    /\ logs' = addLog("SYSTEM", "resetAll", <<>>, <<LogEntry("SYSTEM", "sessionStart", <<>>)>>)
    /\ character' = defaultCharacter
    /\ gmTables' = defaultGMTables(defaultTableId)
    /\ diceInput' = <<"2", "d", "6", "+", "1">>
    /\ lastRoll' = Null
    /\ jsonBox' = EmptyText
    /\ UNCHANGED <<rolled, selectedTableId, nextTableId, defaultTableId, pvars, mvars, yvars, variant>>
    /\ AutoSaved

\* the first effect of a fresh page: the stored snapshot is applied when there is one
\* and it parses; the state stays as constructed otherwise
Restored(raw, tables) ==
    IF ~safeJsonParse(raw).ok \/ ~IsObject(safeJsonParse(raw).value)
    THEN /\ parts' = defaultParts
         /\ logs' = <<LogEntry("SYSTEM", "sessionStart", <<>>)>>
         /\ character' = defaultCharacter
         /\ gmTables' = tables
    ELSE Applied(applyState(safeJsonParse(raw).value, tables), "LOAD", "restored")

\* the page is loaded again: the state is constructed anew, then the effects run
Reload ==
    /\ nextTableId <= MaxTableIds
    /\ defaultTableId' = nextTableId
    /\ nextTableId' = nextTableId + 1
    /\ selectedTableId' = nextTableId
    /\ diceInput' = <<"2", "d", "6", "+", "1">>
    /\ lastRoll' = Null
    /\ rolled' = Null
    /\ jsonBox' = EmptyText
    /\ Restored(storage, defaultGMTables(nextTableId))
    /\ UNCHANGED <<pvars, mvars, yvars, variant>>
    /\ AutoSaved

(***************************************************************************)
(* Simulator: roll1d10, outcomeText, doMadnessCheck, loseTreasure,         *)
(* runScene.  A handler reads the characters of the render it was created  *)
(* in; its setState updaters are applied in order to the pending state.    *)
(***************************************************************************)
Tenths == 10       \* Math.random() yields u / Tenths for a u in 0..Tenths-1
MaxChars == 1      \* the roster is not grown beyond this
MaxIds == 2        \* uid() hands out ids up to this
MaxLogBefore == 1  \* a handler that logs is explored on a log of at most this many entries
MaxBeats == 2      \* scene runs of more checks than this are not explored under Spec
MaxSceneBeats == 3 \* scene runs of more checks than this are not explored under SpecScene

LIMIT == 800
clamp(n, a, b) == IF n < a THEN a ELSE IF n > b THEN b ELSE n

\* 탐색, 전투, 교섭, 공포
SceneTypes == {"explore", "battle", "negotiate", "horror"}

\* outcome labels: critSuccess 대성공(10), critFailure 대실패(1), success 성공, failure 실패
Outcomes == {"critSuccess", "critFailure", "success", "failure"}

SimEntry(kind, ev, who, out, n) == [kind |-> kind, ev |-> ev, who |-> who, out |-> out, n |-> n]

\* addLog of the simulator: the entry goes last, the oldest go beyond LIMIT entries
addLogSim(prev, entry) ==
    IF Len(prev) + 1 > LIMIT
    THEN SubSeq(Append(prev, entry), Len(prev) + 2 - LIMIT, Len(prev) + 1)
    ELSE Append(prev, entry)

\* useState<string>(""): no character chosen
NoId == 0

\* the effect on [characters, relA, relB]: an empty select takes the n-th character
DefaultSelection(sel, chars, n) == IF sel = NoId /\ Len(chars) >= n THEN chars[n].id ELSE sel

\* the selects once the effect has run on the roster chars
Selected(chars) ==
    /\ relA' = DefaultSelection(relA, chars, 1)
    /\ relB' = DefaultSelection(relB, chars, 2)

\* useState<Record<string, RelationLevel>>({})
NoRelations == [k \in {} |-> "neutral"]

newCharacter(id) == [id |-> id, treasureCount |-> 2, mentalMod |-> 0, madness |-> 0]

SimInit ==
    /\ characters = <<newCharacter(1)>>
    /\ nextId = 2
    /\ sceneType = "explore"
    /\ checksInScene = 3
    /\ mode = "setup"
    /\ log = <<SimEntry("SYS", "sessionStart", 0, "", 0)>>
    /\ checks = <<>>
    /\ simParts = defaultParts
    /\ relations = NoRelations
    /\ relA = 1
    /\ relB = NoId
    /\ diceNotation = <<"1", "d", "1", "0", "+", "0">>
    /\ simLastRoll = Undefined
    /\ simJsonBox = EmptyText
    /\ saved = NoItem

\* the page still renders: partsSummary reads Object.entries(parts) on every render,
\* which throws once parts is undefined, and React then unmounts the App
Rendered == simParts # Undefined

\* roll1d10 that forgets the modifier
roll1d10_noMod(mod, u) == [die |-> ((u * 10) \div Tenths) + 1, total |-> ((u * 10) \div Tenths) + 1]

\* roll1d10(mod), Math.random() being u / Tenths
roll1d10(mod, u) == [die |-> ((u * 10) \div Tenths) + 1, total |-> ((u * 10) \div Tenths) + 1 + mod]

\* outcomeText with "total > target" for "total >= target"
outcomeText_strict(die, total, target) ==
    IF die = 10 THEN "critSuccess"
    ELSE IF die = 1 THEN "critFailure"
    ELSE IF total > target THEN "success" ELSE "failure"

outcomeText(die, total, target) ==
    IF die = 10 THEN "critSuccess"
    ELSE IF die = 1 THEN "critFailure"
    ELSE IF total >= target THEN "success" ELSE "failure"

\* updaters: prev.map((c) => (c.id === id ? { ...c, ...patch } : c))
patchMadness(chars, id, m) ==
    [i \in 1..Len(chars) |-> IF chars[i].id = id THEN [chars[i] EXCEPT !.madness = m] ELSE chars[i]]

patchMentalMod(chars, id, v) ==
    [i \in 1..Len(chars) |-> IF chars[i].id = id THEN [chars[i] EXCEPT !.mentalMod = v] ELSE chars[i]]

patchTreasureCount(chars, id, v) ==
    [i \in 1..Len(chars) |-> IF chars[i].id = id THEN [chars[i] EXCEPT !.treasureCount = v] ELSE chars[i]]

\* what a handler has done so far: the pending characters, the pending log, the checks resolved
Acc(chars, lg, done) == [chars |-> chars, log |-> lg, checks |-> done]

Logged(acc, entry) == [acc EXCEPT !.log = addLogSim(acc.log, entry)]

Check(kind, c, r, out, after) ==
    [kind |-> kind, c |-> c, die |-> r.die, total |-> r.total, out |-> out, after |-> after]

Resolved(acc, check) == [acc EXCEPT !.checks = Append(acc.checks, check)]

\* the "collapse" line once the new madness is 10 or more
CollapseLogged(c, nextMadness, acc) ==
    IF nextMadness >= 10 THEN Logged(acc, SimEntry("SIM", "collapse", c.id, "", 0)) ELSE acc

\* the "treasure holds the mind" line while the character has treasure
TreasureLogged(c, acc) ==
    IF c.treasureCount > 0 THEN Logged(acc, SimEntry("SIM", "treasure", c.id, "", 0)) ELSE acc

\* MadnessFailed with c.madness + 1 unclamped
MadnessFailed_noClamp(c, r, out, nextMadness, acc) ==
    CollapseLogged(c, c.madness + 1,
        TreasureLogged(c,
            Resolved([acc EXCEPT !.chars = patchMadness(acc.chars, c.id, c.madness + 1)],
                     Check("madness", c, r, out, c.madness + 1))))

\* doMadnessCheck, failure or critical failure: madness +1 from the character it was given
MadnessFailed(c, r, out, nextMadness, acc) ==
    CollapseLogged(c, nextMadness,
        TreasureLogged(c,
            Resolved([acc EXCEPT !.chars = patchMadness(acc.chars, c.id, nextMadness)],
                     Check("madness", c, r, out, nextMadness))))

\* MadnessJudged with "total > 6" for "total >= 6"
MadnessJudged_strictThreshold(c, r, out, acc) ==
    IF r.die = 10 THEN Resolved(acc, Check("madness", c, r, out, c.madness))
    ELSE IF r.total > 6 /\ r.die # 1 THEN Resolved(acc, Check("madness", c, r, out, c.madness))
    ELSE MadnessFailed(c, r, out, clamp(c.madness + 1, 0, 10), acc)

\* doMadnessCheck once the outcome line is logged
MadnessJudged(c, r, out, acc) ==
    IF r.die = 10 THEN Resolved(acc, Check("madness", c, r, out, c.madness))
    ELSE IF r.total >= 6 /\ r.die # 1 THEN Resolved(acc, Check("madness", c, r, out, c.madness))
    ELSE MadnessFailed(c, r, out, clamp(c.madness + 1, 0, 10), acc)

MadnessRolled(c, r, acc) ==
    MadnessJudged(c, r, outcomeText(r.die, r.total, 6),
                  Logged(acc, SimEntry("SIM", "madness", c.id,
                                       outcomeText(r.die, r.total, 6), 0)))

\* doMadnessCheck(c, reason), the die coming from the draw u
doMadnessCheck(c, u, acc) == MadnessRolled(c, roll1d10(c.mentalMod, u), acc)

\* ActionJudged with the aftermath check made for the first character of the roster
ActionJudged_firstCharacter(c, r, out, u2, acc) ==
    IF out = "failure" \/ out = "critFailure"
    THEN doMadnessCheck(acc.chars[1], u2, Resolved(acc, Check("action", c, r, out, c.madness)))
    ELSE Resolved(acc, Check("action", c, r, out, c.madness))

\* ActionJudged with the aftermath check left out after a critical failure
ActionJudged_failureOnly(c, r, out, u2, acc) ==
    IF out = "failure"
    THEN doMadnessCheck(c, u2, Resolved(acc, Check("action", c, r, out, c.madness)))
    ELSE Resolved(acc, Check("action", c, r, out, c.madness))

\* runScene, the action check of a pass once its outcome line is logged
ActionJudged(c, r, out, u2, acc) ==
    IF out = "failure" \/ out = "critFailure"
    THEN doMadnessCheck(c, u2, Resolved(acc, Check("action", c, r, out, c.madness)))
    ELSE Resolved(acc, Check("action", c, r, out, c.madness))

ActionRolled(c, r, u2, acc) ==
    ActionJudged(c, r, outcomeText(r.die, r.total, 6), u2,
                 Logged(acc, SimEntry("SIM", "action", c.id,
                                      outcomeText(r.die, r.total, 6), 0)))

\* one pass of the loop of runScene for the picked character c
Beat(c, type, u1, u2, acc) ==
    IF type = "horror"
    THEN doMadnessCheck(c, u1, Logged(acc, SimEntry("SIM", "beat", c.id, "", 0)))
    ELSE ActionRolled(c, roll1d10(0, u1), u2, Logged(acc, SimEntry("SIM", "beat", c.id, "", 0)))

\* the loop of runScene: script[i] holds the picks of pass i (the character, the draws);
\* every pass reads the characters of the render, snap
RECURSIVE Beats(_, _, _, _, _)
Beats(snap, type, script, i, acc) ==
    IF i > Len(script) THEN acc
    ELSE Beats(snap, type, script, i + 1,
               Beat(snap[script[i].pick], type, script[i].u1, script[i].u2, acc))

Scripts(count, len, draws) == [1..count -> [pick : 1..len, u1 : draws, u2 : draws]]

SceneEnded(type, acc) == Logged(acc, SimEntry("SIM", "sceneEnd", 0, type, 0))

Commit(acc) ==
    /\ characters' = acc.chars
    /\ log' = acc.log
    /\ checks' = acc.checks

\* runScene with "i <= count" for "i < count": one pass too many
SceneRun_extraBeat(count, draws) ==
    \E script \in Scripts(count + 1, Len(characters), draws) :
        Commit(SceneEnded(sceneType,
            Beats(characters, sceneType, script, 1,
                  Acc(characters, addLogSim(log, SimEntry("SIM", "sceneStart", 0, sceneType, count)),
                      <<>>))))

\* runScene once count is known
SceneRun(count, draws) ==
    \E script \in Scripts(count, Len(characters), draws) :
        Commit(SceneEnded(sceneType,
            Beats(characters, sceneType, script, 1,
                  Acc(characters, addLogSim(log, SimEntry("SIM", "sceneStart", 0, sceneType, count)),
                      <<>>))))

\* the warning, then a scene started and ended all the same
EmptyRosterWarned_startsScene ==
    /\ log' = addLogSim(addLogSim(addLogSim(log, SimEntry("SIM", "sceneFailed", 0, "", 0)),
                                   SimEntry("SIM", "sceneStart", 0, sceneType, 0)),
                         SimEntry("SIM", "sceneEnd", 0, sceneType, 0))
    /\ checks' = <<>>
    /\ UNCHANGED characters

\* runScene on an empty roster: the warning, and return
EmptyRosterWarned ==
    /\ log' = addLogSim(log, SimEntry("SIM", "sceneFailed", 0, "", 0))
    /\ checks' = <<>>
    /\ UNCHANGED characters

runScene(draws, maxBeats) ==
    /\ Rendered
    /\ mode = "run"
    /\ Len(log) <= MaxLogBefore
    /\ IF Len(characters) = 0
       THEN EmptyRosterWarned
       ELSE /\ clamp(checksInScene, 1, 10) <= maxBeats
            /\ SceneRun(clamp(checksInScene, 1, 10), draws)
    /\ UNCHANGED <<nextId, sceneType, checksInScene, mode, pvars, svars, xvars, yvars, variant>>

\* the madness check button of a character's card or row: doMadnessCheck(c, "수동")
MadnessCheckButton(draws) ==
    /\ Rendered
    /\ Len(log) <= MaxLogBefore
    /\ \E i \in 1..Len(characters), u \in draws :
          Commit(doMadnessCheck(characters[i], u, Acc(characters, log, <<>>)))
    /\ UNCHANGED <<nextId, sceneType, checksInScene, mode, pvars, svars, xvars, yvars, variant>>

\* loseTreasure adding 2 to the madness
TreasureLost_plusTwo(c, nextCount, nextMadness) ==
    IF c.treasureCount <= 0
    THEN /\ log' = addLogSim(log, SimEntry("SIM", "noTreasure", c.id, "", 0))
         /\ UNCHANGED characters
    ELSE /\ characters' = patchMadness(patchTreasureCount(characters, c.id, nextCount), c.id,
                                       clamp(c.madness + 2, 0, 10))
         /\ log' = CollapseLogged(c, clamp(c.madness + 2, 0, 10),
                       Acc(characters, addLogSim(log, SimEntry("SIM", "treasureLost", c.id, "", 0)),
                           <<>>)).log

\* loseTreasure once the character is found
TreasureLost(c, nextCount, nextMadness) ==
    IF c.treasureCount <= 0
    THEN /\ log' = addLogSim(log, SimEntry("SIM", "noTreasure", c.id, "", 0))
         /\ UNCHANGED characters
    ELSE /\ characters' = patchMadness(patchTreasureCount(characters, c.id, nextCount), c.id, nextMadness)
         /\ log' = CollapseLogged(c, nextMadness,
                       Acc(characters, addLogSim(log, SimEntry("SIM", "treasureLost", c.id, "", 0)),
                           <<>>)).log

loseTreasure ==
    /\ Rendered
    /\ Len(log) <= MaxLogBefore
    /\ \E i \in 1..Len(characters) :
          TreasureLost(characters[i], characters[i].treasureCount - 1,
                       clamp(characters[i].madness + 1, 0, 10))
    /\ checks' = <<>>
    /\ UNCHANGED <<nextId, sceneType, checksInScene, mode, pvars, svars, xvars, yvars, variant>>

\* the madness field of a character card: clamp(Number(e.target.value), 0, 10)
EditMadness(values) ==
    /\ Rendered
    /\ mode = "setup"
    /\ \E i \in 1..Len(characters), v \in values :
          characters' = patchMadness(characters, characters[i].id, clamp(v, 0, 10))
    /\ checks' = <<>>
    /\ UNCHANGED <<nextId, sceneType, checksInScene, mode, log, pvars, svars, xvars, yvars, variant>>

\* the madness modifier field: clamp(Number(e.target.value), -3, 3)
EditMentalMod(values) ==
    /\ Rendered
    /\ mode = "setup"
    /\ \E i \in 1..Len(characters), v \in values :
          characters' = patchMentalMod(characters, characters[i].id, clamp(v, 0 - 3, 3))
    /\ checks' = <<>>
    /\ UNCHANGED <<nextId, sceneType, checksInScene, mode, log, pvars, svars, xvars, yvars, variant>>

\* the treasure count select: one of its options
EditTreasureCount(values) ==
    /\ Rendered
    /\ mode = "setup"
    /\ \E i \in 1..Len(characters), v \in values :
          characters' = patchTreasureCount(characters, characters[i].id, v)
    /\ checks' = <<>>
    /\ UNCHANGED <<nextId, sceneType, checksInScene, mode, log, pvars, svars, xvars, yvars, variant>>

addCharacter(cap, lastId) ==
    /\ Rendered
    /\ mode = "setup"
    /\ Len(log) <= MaxLogBefore
    /\ Len(characters) < cap
    /\ nextId <= lastId
    /\ characters' = Append(characters, newCharacter(nextId))
    /\ nextId' = nextId + 1
    /\ log' = addLogSim(log, SimEntry("SYS", "characterAdded", Len(characters) + 1, "", 0))
    /\ Selected(characters')
    /\ checks' = <<>>
    /\ UNCHANGED <<sceneType, checksInScene, mode, pvars, svars, xvars, variant>>
    /\ UNCHANGED <<simParts, relations, diceNotation, simLastRoll, simJsonBox, saved>>

\* the clean-up of removeCharacter with "a !== id" only
RelationsWithout_firstOnly(prev, id) ==
    [k \in {x \in DOMAIN prev : x[1] # id} |-> prev[k]]

\* the updater of setRelations in removeCharacter: [a, b] = k.split("|"), and the
\* entry stays if a !== id && b !== id
RelationsWithout(prev, id) ==
    [k \in {x \in DOMAIN prev : x[1] # id /\ x[2] # id} |-> prev[k]]

removeCharacter ==
    /\ Rendered
    /\ mode = "setup"
    /\ Len(log) <= MaxLogBefore
    /\ \E i \in 1..Len(characters) :
          /\ characters' = SelectSeq(characters, LAMBDA c : c.id # characters[i].id)
          /\ log' = addLogSim(log, SimEntry("SYS", "characterRemoved", 0, "", 0))
          /\ relations' = RelationsWithout(relations, characters[i].id)
    /\ Selected(characters')
    /\ checks' = <<>>
    /\ UNCHANGED <<nextId, sceneType, checksInScene, mode, pvars, svars, xvars, variant>>
    /\ UNCHANGED <<simParts, diceNotation, simLastRoll, simJsonBox, saved>>

startRun ==
    /\ Rendered
    /\ mode = "setup"
    /\ Len(log) <= MaxLogBefore
    /\ mode' = "run"
    /\ log' = addLogSim(log, SimEntry("SYS", "runMode", 0, "", 0))
    /\ checks' = <<>>
    /\ UNCHANGED <<characters, nextId, sceneType, checksInScene, pvars, svars, xvars, yvars, variant>>

backToSetup ==
    /\ Rendered
    /\ mode = "run"
    /\ Len(log) <= MaxLogBefore
    /\ mode' = "setup"
    /\ log' = addLogSim(log, SimEntry("SYS", "setupMode", 0, "", 0))
    /\ checks' = <<>>
    /\ UNCHANGED <<characters, nextId, sceneType, checksInScene, pvars, svars, xvars, yvars, variant>>

\* the scene type select
SetSceneType(types) ==
    /\ Rendered
    /\ mode = "run"
    /\ \E t \in types : sceneType' = t
    /\ checks' = <<>>
    /\ UNCHANGED <<characters, nextId, checksInScene, mode, log, pvars, svars, xvars, yvars, variant>>

\* the checks-per-scene field: clamp(Number(e.target.value), 1, 10)
SetChecksInScene(values) ==
    /\ Rendered
    /\ mode = "run"
    /\ \E v \in values : checksInScene' = clamp(v, 1, 10)
    /\ checks' = <<>>
    /\ UNCHANGED <<characters, nextId, sceneType, mode, log, pvars, svars, xvars, yvars, variant>>

\* the log panel's clear button: setLog([])
clearLogSim ==
    /\ Rendered
    /\ log' = <<>>
    /\ checks' = <<>>
    /\ UNCHANGED <<characters, nextId, sceneType, checksInScene, mode, pvars, svars, xvars, yvars, variant>>

(***************************************************************************)
(* Simulator: parts, relations, the dice panel, save/load                  *)
(***************************************************************************)
\* a log entry that quotes a text
TextEntry(kind, ev, txt) == [kind |-> kind, ev |-> ev, text |-> txt]

togglePartSim(keys) ==
    /\ Rendered
    /\ Len(log) <= MaxLogBefore
    /\ \E key \in keys :
          /\ simParts' = [simParts EXCEPT ![key] = NextPartState(simParts[key])]
          /\ log' = addLogSim(log, TextEntry("PART", "part", <<key>>))
    /\ checks' = <<>>
    /\ UNCHANGED <<characters, nextId, sceneType, checksInScene, mode, pvars, svars, xvars, variant>>
    /\ UNCHANGED <<relations, relA, relB, diceNotation, simLastRoll, simJsonBox, saved>>

\* 신뢰, 중립, 경계, 적대
RelationLevels == {"trust", "neutral", "wary", "hostile"}

\* relKey(a, b): the smaller id first
relKey(a, b) == IF a < b THEN <<a, b>> ELSE <<b, a>>

\* { ...prev, [k]: relLevel }
WithRelation(prev, k, level) ==
    [x \in (DOMAIN prev) \cup {k} |-> IF x = k THEN level ELSE prev[x]]

\* the selects A and B of the relations panel: an option of the roster is chosen
SetRelA ==
    /\ Rendered
    /\ mode = "run"
    /\ \E i \in 1..Len(characters) : relA' = characters[i].id
    /\ checks' = <<>>
    /\ UNCHANGED <<characters, nextId, sceneType, checksInScene, mode, log, pvars, svars, xvars, variant>>
    /\ UNCHANGED <<simParts, relations, relB, diceNotation, simLastRoll, simJsonBox, saved>>

SetRelB ==
    /\ Rendered
    /\ mode = "run"
    /\ \E i \in 1..Len(characters) : relB' = characters[i].id
    /\ checks' = <<>>
    /\ UNCHANGED <<characters, nextId, sceneType, checksInScene, mode, log, pvars, svars, xvars, variant>>
    /\ UNCHANGED <<simParts, relations, relA, diceNotation, simLastRoll, simJsonBox, saved>>

\* saveRelation, the level select holding one of levels; the button is disabled
\* while !relA || !relB || relA === relB
saveRelation(levels) ==
    /\ Rendered
    /\ mode = "run"
    /\ Len(log) <= MaxLogBefore
    /\ relA # NoId /\ relB # NoId /\ relA # relB
    /\ \E level \in levels : relations' = WithRelation(relations, relKey(relA, relB), level)
    /\ log' = addLogSim(log, SimEntry("SIM", "relation", 0, "", 0))
    /\ checks' = <<>>
    /\ UNCHANGED <<characters, nextId, sceneType, checksInScene, mode, pvars, svars, xvars, variant>>
    /\ UNCHANGED <<simParts, relA, relB, diceNotation, simLastRoll, simJsonBox, saved>>

\* the pattern with the leading 1 optional, as parseDiceNotation has it
Match1d10_optionalCount(s) ==
    LET t == IF Len(s) >= 1 /\ s[1] = "d" THEN <<"1">> \o s ELSE s
    IN  IF Len(t) < 4 \/ SubSeq(t, 1, 4) # <<"1", "d", "1", "0">> THEN Null
        ELSE IF Len(t) = 4 THEN [mod |-> 0]
        ELSE IF Len(t) >= 6 /\ t[5] \in {"+", "-"} /\ AllDigits(SubSeq(t, 6, Len(t)))
        THEN [mod |-> SignedToInt(SubSeq(t, 5, Len(t)))]
        ELSE Null

\* parse1d10 once the text is trimmed, lowered and stripped of white space:
\* /^1d10([+-]\d+)?$/
Match1d10(s) ==
    IF Len(s) < 4 \/ SubSeq(s, 1, 4) # <<"1", "d", "1", "0">> THEN Null
    ELSE IF Len(s) = 4 THEN [mod |-> 0]
    ELSE IF Len(s) >= 6 /\ s[5] \in {"+", "-"} /\ AllDigits(SubSeq(s, 6, Len(s)))
    THEN [mod |-> SignedToInt(SubSeq(s, 5, Len(s)))]
    ELSE Null

parse1d10(notation) == Match1d10(RemoveSpaces(ToLower(notation)))

\* the notation field of the dice panel is edited
SetDiceNotation(texts) ==
    /\ Rendered
    /\ \E t \in texts : diceNotation' = t
    /\ checks' = <<>>
    /\ UNCHANGED <<characters, nextId, sceneType, checksInScene, mode, log, pvars, svars, xvars, variant>>
    /\ UNCHANGED <<simParts, relations, relA, relB, simLastRoll, simJsonBox, saved>>

\* doRoll with a last roll stored on a notation that did not parse
DiceParsed_storesAnyway(p, draws) ==
    IF p = Null
    THEN /\ log' = addLogSim(log, TextEntry("DICE", "diceError", diceNotation))
         /\ simLastRoll' = [notation |-> diceNotation, rolls |-> <<>>, total |-> 0, mod |-> 0]
    ELSE \E u \in draws :
            /\ simLastRoll' = [notation |-> diceNotation, rolls |-> <<roll1d10(p.mod, u).die>>,
                               total |-> roll1d10(p.mod, u).total, mod |-> p.mod]
            /\ log' = addLogSim(log, TextEntry("DICE", "roll", diceNotation))

\* doRoll once parse1d10(diceNotation) has returned p
DiceParsed(p, draws) ==
    IF p = Null
    THEN /\ log' = addLogSim(log, TextEntry("DICE", "diceError", diceNotation))
         /\ UNCHANGED simLastRoll
    ELSE \E u \in draws :
            /\ simLastRoll' = [notation |-> diceNotation, rolls |-> <<roll1d10(p.mod, u).die>>,
                               total |-> roll1d10(p.mod, u).total, mod |-> p.mod]
            /\ log' = addLogSim(log, TextEntry("DICE", "roll", diceNotation))

doRoll(draws) ==
    /\ Rendered
    /\ Len(log) <= MaxLogBefore
    /\ DiceParsed(parse1d10(diceNotation), draws)
    /\ checks' = <<>>
    /\ UNCHANGED <<characters, nextId, sceneType, checksInScene, mode, pvars, svars, xvars, variant>>
    /\ UNCHANGED <<simParts, relations, relA, relB, diceNotation, simJsonBox, saved>>

\* buildSaveData()
buildSaveData ==
    [version |-> 1, mode |-> mode, parts |-> simParts, log |-> log, characters |-> characters,
     relations |-> relations, diceNotation |-> diceNotation, lastRoll |-> simLastRoll,
     sceneType |-> sceneType, checksInScene |-> checksInScene]

\* data.key?.length ? data.key : dflt
OrIfEmpty(obj, key, dflt) ==
    IF key \in DOMAIN obj /\ Len(obj[key]) > 0 THEN obj[key] ELSE dflt

\* applySaveData with the scene settings left at their defaults
applySaveData_noScene(data) ==
    [mode |-> OrDefault(data, "mode", "setup"),
     parts |-> OrDefault(data, "parts", Undefined),
     log |-> OrIfEmpty(data, "log", <<SimEntry("SYS", "sessionStart", 0, "", 0)>>),
     characters |-> OrIfEmpty(data, "characters", <<>>),
     relations |-> OrDefault(data, "relations", NoRelations),
     diceNotation |-> OrDefault(data, "diceNotation", <<"1", "d", "1", "0", "+", "0">>),
     lastRoll |-> OrDefault(data, "lastRoll", Undefined),
     sceneType |-> "explore",
     checksInScene |-> 3]

\* applySaveData(data): what it hands to the setters
applySaveData(data) ==
    [mode |-> OrDefault(data, "mode", "setup"),
     parts |-> OrDefault(data, "parts", Undefined),
     log |-> OrIfEmpty(data, "log", <<SimEntry("SYS", "sessionStart", 0, "", 0)>>),
     characters |-> OrIfEmpty(data, "characters", <<>>),
     relations |-> OrDefault(data, "relations", NoRelations),
     diceNotation |-> OrDefault(data, "diceNotation", <<"1", "d", "1", "0", "+", "0">>),
     lastRoll |-> OrDefault(data, "lastRoll", Undefined),
     sceneType |-> OrDefault(data, "sceneType", "explore"),
     checksInScene |-> OrDefault(data, "checksInScene", 3)]

\* the setters of applySaveData, then addLog("SAVE", ...)
Loaded(st, what) ==
    /\ mode' = st.mode
    /\ simParts' = st.parts
    /\ log' = addLogSim(st.log, SimEntry("SAVE", what, 0, "", 0))
    /\ characters' = st.characters
    /\ relations' = st.relations
    /\ Selected(st.characters)
    /\ diceNotation' = st.diceNotation
    /\ simLastRoll' = st.lastRoll
    /\ sceneType' = st.sceneType
    /\ checksInScene' = st.checksInScene

\* JSON.parse(raw) and the version test, then applySaveData, or the catch
TextLoaded(raw, done, failed) ==
    IF raw.text = "json" /\ "version" \in DOMAIN raw.doc /\ raw.doc.version = 1
    THEN Loaded(applySaveData(raw.doc), done)
    ELSE /\ log' = addLogSim(log, SimEntry("SAVE", failed, 0, "", 0))
         /\ UNCHANGED <<mode, simParts, characters, relations, relA, relB, diceNotation, simLastRoll,
                        sceneType, checksInScene>>

saveLocal ==
    /\ Rendered
    /\ Len(log) <= MaxLogBefore
    /\ saved' = JsonStringify(buildSaveData, {"lastRoll"})
    /\ log' = addLogSim(log, SimEntry("SAVE", "savedLocal", 0, "", 0))
    /\ checks' = <<>>
    /\ UNCHANGED <<characters, nextId, sceneType, checksInScene, mode, pvars, svars, xvars, variant>>
    /\ UNCHANGED <<simParts, relations, relA, relB, diceNotation, simLastRoll, simJsonBox>>

loadLocal ==
    /\ Rendered
    /\ Len(log) <= MaxLogBefore
    /\ IF saved = NoItem
       THEN /\ log' = addLogSim(log, SimEntry("SAVE", "nothingSaved", 0, "", 0))
            /\ UNCHANGED <<mode, simParts, characters, relations, relA, relB, diceNotation, simLastRoll,
                           sceneType, checksInScene>>
       ELSE TextLoaded(saved, "loadedLocal", "loadLocalFailed")
    /\ checks' = <<>>
    /\ UNCHANGED <<nextId, simJsonBox, saved, pvars, svars, xvars, variant>>

\* the JSON box is edited
SetJsonBoxSim(texts) ==
    /\ Rendered
    /\ \E t \in texts : simJsonBox' = t
    /\ checks' = <<>>
    /\ UNCHANGED <<characters, nextId, sceneType, checksInScene, mode, log, pvars, svars, xvars, variant>>
    /\ UNCHANGED <<simParts, relations, relA, relB, diceNotation, simLastRoll, saved>>

exportJsonToBox ==
    /\ Rendered
    /\ Len(log) <= MaxLogBefore
    /\ simJsonBox' = JsonStringify(buildSaveData, {"lastRoll"})
    /\ log' = addLogSim(log, SimEntry("SAVE", "exported", 0, "", 0))
    /\ checks' = <<>>
    /\ UNCHANGED <<characters, nextId, sceneType, checksInScene, mode, pvars, svars, xvars, variant>>
    /\ UNCHANGED <<simParts, relations, relA, relB, diceNotation, simLastRoll, saved>>

importJsonFromBox ==
    /\ Rendered
    /\ Len(log) <= MaxLogBefore
    /\ IF simJsonBox = EmptyText
       THEN /\ log' = addLogSim(log, SimEntry("SAVE", "importEmpty", 0, "", 0))
            /\ UNCHANGED <<mode, simParts, characters, relations, relA, relB, diceNotation, simLastRoll,
                           sceneType, checksInScene>>
       ELSE TextLoaded(simJsonBox, "imported", "importFailed")
    /\ checks' = <<>>
    /\ UNCHANGED <<nextId, simJsonBox, saved, pvars, svars, xvars, variant>>

\* resetAll of the simulator
resetAllSim ==
    /\ Rendered
    /\ nextId <= MaxIds
    /\ mode' = "setup"
    /\ simParts' = defaultParts
    /\ characters' = <<newCharacter(nextId)>>
    /\ nextId' = nextId + 1
    /\ relations' = NoRelations
    /\ Selected(<<newCharacter(nextId)>>)
    /\ diceNotation' = <<"1", "d", "1", "0", "+", "0">>
    /\ simLastRoll' = Undefined
    /\ sceneType' = "explore"
    /\ checksInScene' = 3
    /\ log' = <<SimEntry("SYS", "resetAll", 0, "", 0)>>
    /\ simJsonBox' = EmptyText
    /\ checks' = <<>>
    /\ UNCHANGED <<saved, pvars, svars, xvars, variant>>

(***************************************************************************)
(* Specifications                                                          *)
(***************************************************************************)
AllDraws == 0..(Tenths - 1)
SceneDraws == {0, 4, Tenths - 1}
MadnessInputs == {0 - 1, 9, 12}
MentalModInputs == {0 - 5, 3}
TreasureOptions == {0, 3}
HorrorOrNot == {"battle", "horror"}

Init == SimInit /\ SheetInit /\ ParseIdle /\ variant = "simulator"

Next ==
    \/ addCharacter(MaxChars, MaxIds)
    \/ removeCharacter
    \/ EditMadness(MadnessInputs)
    \/ EditMentalMod(MentalModInputs)
    \/ EditTreasureCount(TreasureOptions)
    \/ MadnessCheckButton(AllDraws)
    \/ loseTreasure
    \/ startRun
    \/ backToSetup
    \/ runScene(SceneDraws, MaxBeats)
    \/ SetSceneType(HorrorOrNot)
    \/ SetChecksInScene(0..MaxBeats)
    \/ clearLogSim

Spec == Init /\ [][Next]_vars

SceneInit == Init

SceneNext ==
    \/ startRun
    \/ runScene(SceneDraws, MaxSceneBeats)
    \/ SetSceneType(SceneTypes)
    \/ SetChecksInScene(0..MaxSceneBeats)
    \/ clearLogSim

SpecScene == SceneInit /\ [][SceneNext]_vars

\* scene runs of a roster of two
MaxCast == 2       \* the roster is not grown beyond this under SpecCast
MaxCastBeats == 2  \* scene runs of more checks than this are not explored under SpecCast
CastDraws == {0, 5}

CastInit == Init

CastNext ==
    \/ addCharacter(MaxCast, MaxIds)
    \/ startRun
    \/ SetSceneType({"horror"})
    \/ SetChecksInScene({1, MaxCastBeats})
    \/ runScene(CastDraws, MaxCastBeats)
    \/ clearLogSim

SpecCast == CastInit /\ [][CastNext]_vars

RollTexts == { <<"2", "d", "6", "+", "1">>, <<" ", "D", "2", " ", "-", "4">>, <<"0", "d", "6">> }
BonusValues == {0, 2}
PresetBonusValues == {0, 0 - 3}
BaseTexts == { <<"2", "d", "6">>, <<"d", "4", "-", "1">>, <<"2", "d">> }

RollInit == SheetInit /\ ParseIdle /\ SimInit /\ variant = "sheet"

RollNext ==
    \/ SetDiceInput(RollTexts)
    \/ SetDiceBonus(BonusValues)
    \/ SetJudgeBase(BaseTexts)
    \/ SetJudgeBonus(PresetBonusValues)
    \/ onRollManual
    \/ \E key \in JudgeKeys : rollJudge(key)
    \/ clearLog

SpecRoll == RollInit /\ [][RollNext]_vars

ParseInit == TypedInit /\ SheetInit /\ SimInit /\ variant = "sheet"

ParseNext == Parse \/ Reparse

SpecParse == ParseInit /\ [][ParseNext]_vars

C2_OmittedCountIsOne ==
    ppc # "typed" =>
        /\ (typed.damage = "none" /\ typed.count = Omitted) =>
               parsed = parseDiceNotation(
                   TypedText(1, typed.sides, typed.sign, typed.k, typed.style, "none"))
        /\ text = <<"d", "1", "0">> =>
               parsed = [n |-> 1, m |-> 10, mod |-> 0, norm |-> <<"1", "d", "1", "0">>]
        /\ text = <<"2", "d", "6", "+", "1">> =>
               parsed = [n |-> 2, m |-> 6, mod |-> 1, norm |-> <<"2", "d", "6", "+", "1">>]

C2_Witness ==
    /\ ppc = "parsed" /\ typed.count = Omitted /\ typed.damage = "none"
    /\ typed.sign = "+" /\ typed.k = 13 /\ parsed # Null /\ parsed.n = 1

C4_RollShape ==
    (rolled # Null /\ rolled.res # Null) =>
        LET p == parseDiceNotation(rolled.notation)
            r == rolled.res
        IN  /\ Len(r.rolls) = p.n
            /\ \A i \in 1..Len(r.rolls) :
                  /\ r.rolls[i] >= 1 /\ r.rolls[i] <= p.m
                  /\ r.rolls[i] = 1 + ((rolled.draws[i] * p.m) \div RandDen)
            /\ r.sides = p.m
            /\ r.modifier = p.mod
            /\ r.total = Sum(r.rolls) + r.modifier
            /\ (p.n = 2 /\ p.m = 6 /\ p.mod = 1 /\ r.rolls = <<3, 5>>) => r.total = 9

C4_Witness ==
    /\ rolled # Null /\ rolled.res # Null
    /\ rolled.notation = <<"2", "d", "6", "+", "1">>
    /\ rolled.res.rolls = <<3, 5>> /\ rolled.res.total = 9

\* C5: the result of rollDice is fixed by the notation and the random draws alone:
\* whatever the global bonus, the presets and the earlier rolls are, it is the
\* result computed from the parsed notation and the draws.
C5_RollFixedByNotationAndDraws ==
    rolled # Null =>
        LET p == parseDiceNotation(rolled.notation)
        IN  IF p = Null THEN rolled.res = Null
            ELSE LET faces == [i \in 1..p.n |-> 1 + ((rolled.draws[i] * p.m) \div RandDen)]
                 IN  rolled.res = [notation |-> p.norm, rolls |-> faces, sides |-> p.m,
                                   modifier |-> p.mod, total |-> Sum(faces) + p.mod]

C5_Witness ==
    /\ rolled # Null /\ rolled.res # Null
    /\ character.diceBonus # 0
    /\ \E key \in JudgeKeys : character.judgePresets[key].bonus # 0
    /\ lastRoll # Null /\ lastRoll.total # rolled.res.total

gradeFromValue(value) ==
    IF value >= 8 THEN "critSuccess"
    ELSE IF value >= 5 THEN "success"
    ELSE IF value >= 2 THEN "failure"
    ELSE "critFailure"

\* C7 as stated: the grade of every resolved check is fixed by its adjusted value in
\* [1,10] alone, 8 and more the best grade, 5..7 the second, 2..4 the third, 1 the worst.
C7_GradeByThresholds ==
    \A i \in 1..Len(checks) :
        checks[i].out = gradeFromValue(clamp(checks[i].total, 1, 10))

\* C7: the outcome of every resolved check is fixed by its raw die in 1..10 and its
\* modified total: die 10 is a critical success, die 1 a critical failure, any other die
\* a success when the total is 6 or more and a failure when it is 5 or less; there are
\* exactly these four outcomes.
C7_OutcomeByDieAndTotal ==
    \A i \in 1..Len(checks) :
        /\ checks[i].die \in 1..10
        /\ checks[i].out \in Outcomes
        /\ (checks[i].out = "critSuccess") <=> (checks[i].die = 10)
        /\ (checks[i].out = "critFailure") <=> (checks[i].die = 1)
        /\ (checks[i].out = "success") <=> (checks[i].die \in 2..9 /\ checks[i].total >= 6)
        /\ (checks[i].out = "failure") <=> (checks[i].die \in 2..9 /\ checks[i].total <= 5)

\* a die of 3 lifted to the target by the modifier succeeds, and a 10 pulled down to 7
\* is still a critical success
C7_Witness ==
    /\ Len(checks) = 1
    /\ \/ checks[1].die = 3 /\ checks[1].total = 6 /\ checks[1].out = "success"
       \/ checks[1].die = 10 /\ checks[1].total = 7 /\ checks[1].out = "critSuccess"

\* C8 as stated: a madness check's value is the die +1 with treasure held and -1 without,
\* clamped to [1,10]; an action check's value is the die.
C8_TreasureAdjusts ==
    \A i \in 1..Len(checks) :
        IF checks[i].kind = "madness"
        THEN checks[i].total =
                 clamp(checks[i].die + (IF checks[i].c.treasureCount > 0 THEN 1 ELSE 0 - 1), 1, 10)
        ELSE checks[i].total = checks[i].die

\* C8: a madness check's total is the die plus the character's madness modifier, whether
\* or not treasure is held and without any clamp; an action check's total is the die.
C8_ModifierAdjusts ==
    \A i \in 1..Len(checks) :
        IF checks[i].kind = "madness"
        THEN checks[i].total = checks[i].die + checks[i].c.mentalMod
        ELSE checks[i].total = checks[i].die

\* a madness check without treasure and with modifier +3 on a die of 10: total 13
C8_Witness ==
    \E i \in 1..Len(checks) :
        /\ checks[i].kind = "madness"
        /\ checks[i].c.treasureCount = 0
        /\ checks[i].c.mentalMod = 3
        /\ checks[i].die = 10
        /\ checks[i].total = 13

\* C9: every character's madness is in [0,10], whatever scene runs, madness checks,
\* treasure losses and madness edits have happened.
C9_MadnessInRange ==
    \A i \in 1..Len(characters) : characters[i].madness \in 0..10

\* a madness check failed by a character already at 10 leaves the character at 10
C9_Witness ==
    /\ Len(characters) = 1
    /\ characters[1].madness = 10
    /\ \E i \in 1..Len(checks) :
          /\ checks[i].kind = "madness"
          /\ checks[i].c.madness = 10
          /\ checks[i].out \in {"failure", "critFailure"}

(***************************************************************************)
(* Claims about a scene run                                                *)
(***************************************************************************)
\* the last handler was a scene run that found a character
SceneJustRan ==
    /\ checks # <<>>
    /\ Len(log) > 0
    /\ log[Len(log)].ev = "sceneEnd"

\* where the last scene run starts in the log
SceneStart ==
    CHOOSE i \in 1..Len(log) :
        /\ log[i].ev = "sceneStart"
        /\ \A j \in (i + 1)..Len(log) : log[j].ev # "sceneStart"

CountLog(from, evs) == Cardinality({j \in (from + 1)..Len(log) : log[j].ev \in evs})

CountChecks(kinds) == Cardinality({i \in 1..Len(checks) : checks[i].kind \in kinds})

Failed(check) == check.out \in {"failure", "critFailure"}

\* C10 as stated: a scene run of N beats resolves exactly N checks.
C10_ExactlyNChecks ==
    SceneJustRan => Len(checks) = log[SceneStart].n

\* C10: a scene run configured with N checks (N in 1..10) plays exactly N beats, each
\* resolving one primary check: a madness check in a horror scene, an action check
\* otherwise.  Outside horror a failed or critically failed action check is followed in
\* its beat by one madness check, so the run resolves N to 2N checks, exactly N in a horror
\* scene.  The scene end is logged once, after the last check, and nothing follows it.
C10_NBeatsNPrimaryChecks ==
    SceneJustRan =>
        /\ log[SceneStart].n = clamp(checksInScene, 1, 10)
        /\ CountLog(SceneStart, {"beat"}) = log[SceneStart].n
        /\ CountLog(SceneStart, {"sceneEnd"}) = 1
        /\ CountLog(SceneStart, {"madness", "action"}) = Len(checks)
        /\ Len(checks) >= log[SceneStart].n
        /\ Len(checks) <= 2 * log[SceneStart].n
        /\ IF log[SceneStart].out = "horror"
           THEN /\ Len(checks) = log[SceneStart].n
                /\ CountChecks({"action"}) = 0
           ELSE /\ CountChecks({"action"}) = log[SceneStart].n
                /\ checks[1].kind = "action"
                /\ \A i \in 1..Len(checks) :
                      checks[i].kind = "action" =>
                          (Failed(checks[i]) <=>
                              (i < Len(checks) /\ checks[i + 1].kind = "madness"))

\* a scene of three beats that resolved five checks
C10_Witness ==
    /\ SceneJustRan
    /\ log[SceneStart].n = 3
    /\ Len(checks) = 5


(***************************************************************************)
(* Parts, GM tables and save/load of both pages                            *)
(***************************************************************************)
SaveToggleKeys == {"head", "legR"}

\* texts typed or pasted into the save/load box of the character sheet
ForeignSheetTexts == {Garbage, ScalarText, JsonText([parts |-> [head |-> "ok"]])}

\* texts typed or pasted into the JSON box of the simulator
ForeignSimTexts == {Garbage, JsonText([version |-> 2]), JsonText([version |-> 1])}

SaveInit == SimInit /\ SheetInit /\ ParseIdle /\ variant \in {"sheet", "simulator"}

SaveNext ==
    \/ variant = "sheet" /\ togglePart(SaveToggleKeys)
    \/ variant = "sheet" /\ SetDiceBonus({2})
    \/ variant = "sheet" /\ gmAddNewTable
    \/ variant = "sheet" /\ SetJsonBox(ForeignSheetTexts)
    \/ variant = "sheet" /\ exportJson
    \/ variant = "sheet" /\ importJson
    \/ variant = "sheet" /\ resetAll
    \/ variant = "sheet" /\ clearLog
    \/ variant = "simulator" /\ togglePartSim(SaveToggleKeys)
    \/ variant = "simulator" /\ addCharacter(MaxCast, MaxIds)
    \/ variant = "simulator" /\ startRun
    \/ variant = "simulator" /\ saveRelation({"trust"})
    \/ variant = "simulator" /\ SetSceneType({"horror"})
    \/ variant = "simulator" /\ SetJsonBoxSim(ForeignSimTexts)
    \/ variant = "simulator" /\ exportJsonToBox
    \/ variant = "simulator" /\ importJsonFromBox
    \/ variant = "simulator" /\ resetAllSim
    \/ variant = "simulator" /\ clearLogSim

SpecSave == SaveInit /\ [][SaveNext]_vars

(***************************************************************************)
(* localStorage: the auto-save of the character sheet and the reload of    *)
(* its page, the local save and load of the simulator                      *)
(***************************************************************************)
AutoNext ==
    \/ variant = "sheet" /\ togglePart(SaveToggleKeys)
    \/ variant = "sheet" /\ SetDiceBonus({2})
    \/ variant = "sheet" /\ gmAddNewTable
    \/ variant = "sheet" /\ gmDeleteTable
    \/ variant = "sheet" /\ Reload
    \/ variant = "sheet" /\ resetAll
    \/ variant = "sheet" /\ clearLog
    \/ variant = "simulator" /\ togglePartSim(SaveToggleKeys)
    \/ variant = "simulator" /\ startRun
    \/ variant = "simulator" /\ SetSceneType({"horror"})
    \/ variant = "simulator" /\ SetChecksInScene({1})
    \/ variant = "simulator" /\ saveLocal
    \/ variant = "simulator" /\ loadLocal
    \/ variant = "simulator" /\ resetAllSim
    \/ variant = "simulator" /\ clearLogSim

SpecAuto == SaveInit /\ [][AutoNext]_vars


(***************************************************************************)
(* Claims about the handlers' failure paths                                *)
(***************************************************************************)
\* C11: a scene run on an empty roster only logs one warning: no check is resolved, no
\* scene start or scene end is logged, and the characters, the parts, the relations, the
\* scene type, the checks per scene and the mode are as before.
C11_EmptyRosterOnlyWarns ==
    [][(Len(characters) = 0 /\ runScene(SceneDraws, MaxBeats)) =>
          /\ log' = Append(log, SimEntry("SIM", "sceneFailed", 0, "", 0))
          /\ checks' = <<>>
          /\ UNCHANGED <<characters, simParts, relations, sceneType, checksInScene, mode>>]_vars

\* the warning is the last thing logged, on an empty roster in the run layout
C11_Witness ==
    /\ Len(characters) = 0
    /\ mode = "run"
    /\ Len(log) > 0
    /\ log[Len(log)].ev = "sceneFailed"


(***************************************************************************)
(* Claims about who acts in a scene run                                    *)
(***************************************************************************)
\* the beat lines of the last scene run, in order
BeatLines == SelectSeq(SubSeq(log, SceneStart + 1, Len(log)), LAMBDA e : e.ev = "beat")

\* the checks of the last scene run that open a beat
PrimaryChecks ==
    SelectSeq(checks, LAMBDA k : log[SceneStart].out = "horror" \/ k.kind = "action")

\* where the character of that id stands in the roster
RosterIndex(id) == CHOOSE i \in 1..Len(characters) : characters[i].id = id

\* C12 as stated: in a scene run the actor of a beat is the roster successor of the actor
\* of the beat before: index k is followed by index (k + 1) mod roster size.
C12_RoundRobin ==
    SceneJustRan =>
        \A j \in 1..(Len(BeatLines) - 1) :
            RosterIndex(BeatLines[j + 1].who) = (RosterIndex(BeatLines[j].who) % Len(characters)) + 1

\* C12: in a scene run every beat is acted by some character of the roster, drawn anew
\* for each beat (so the same character may act in consecutive beats), and every check of
\* the beat, the aftermath madness check included, is resolved for that character.
C12_ActorOfTheRoster ==
    SceneJustRan =>
        /\ Len(PrimaryChecks) = Len(BeatLines)
        /\ \A j \in 1..Len(BeatLines) :
              /\ \E i \in 1..Len(characters) : characters[i].id = BeatLines[j].who
              /\ PrimaryChecks[j].c.id = BeatLines[j].who
        /\ \A i \in 2..Len(checks) :
              (checks[i].kind = "madness" /\ log[SceneStart].out # "horror") =>
                  checks[i].c = checks[i - 1].c

\* with a roster of two, the second character acts in both beats of a scene and fails
\* the action check of one
C12_Witness ==
    /\ SceneJustRan
    /\ Len(characters) = 2
    /\ Len(BeatLines) = 2
    /\ BeatLines[1].who = characters[2].id
    /\ BeatLines[2].who = characters[2].id
    /\ \E i \in 2..Len(checks) : checks[i].kind = "madness" /\ checks[i - 1].kind = "action"

(***************************************************************************)
(* The dice panels of both pages, beside a part and a character edit       *)
(***************************************************************************)
\* "1d10+0", " 1D10 -2", "2d6", "1d10+"
SimDiceTexts == { <<"1", "d", "1", "0", "+", "0">>, <<" ", "1", "D", "1", "0", " ", "-", "2">>,
                  <<"2", "d", "6">>, <<"1", "d", "1", "0", "+">> }

DiceNext ==
    \/ variant = "sheet" /\ SetDiceInput(RollTexts)
    \/ variant = "sheet" /\ SetDiceBonus(BonusValues)
    \/ variant = "sheet" /\ togglePart({"head"})
    \/ variant = "sheet" /\ onRollManual
    \/ variant = "sheet" /\ clearLog
    \/ variant = "simulator" /\ SetDiceNotation(SimDiceTexts)
    \/ variant = "simulator" /\ togglePartSim({"head"})
    \/ variant = "simulator" /\ EditMadness({3})
    \/ variant = "simulator" /\ doRoll(SceneDraws)
    \/ variant = "simulator" /\ clearLogSim

SpecDice == SaveInit /\ [][DiceNext]_vars

\* the cycle of the claim, written as a table
CycleAfter == [ok |-> "damaged", damaged |-> "broken", broken |-> "ok"]

\* after is before with the part key one step further in the cycle and every other
\* part as it was; two more steps bring the part back
ToggledOnce(before, after, key) ==
    /\ DOMAIN after = DOMAIN before
    /\ after[key] = CycleAfter[before[key]]
    /\ \A k \in (DOMAIN before) \ {key} : after[k] = before[k]
    /\ NextPartState(NextPartState(after[key])) = before[key]

\* C13: a toggle of either page moves the clicked part one step in the cycle
\* ok -> damaged -> broken -> ok (broken wraps to ok), three toggles of a part
\* restore it, and every other part keeps its state.
C13_ToggleCycles ==
    [][/\ (variant = "sheet" /\ togglePart(SaveToggleKeys)) =>
              \E key \in SaveToggleKeys : ToggledOnce(parts, parts', key)
       /\ (variant = "simulator" /\ togglePartSim(SaveToggleKeys)) =>
              \E key \in SaveToggleKeys : ToggledOnce(simParts, simParts', key)]_vars

\* a broken part has just been toggled back to ok while another part is damaged
C13_Witness ==
    \/ /\ variant = "sheet"
       /\ Len(logs) > 0 /\ logs[1].tag = "PART"
       /\ DOMAIN parts = PartKeys /\ parts["head"] = "ok" /\ parts["legR"] = "damaged"
       /\ jsonBox # EmptyText /\ jsonBox.text = "json" /\ "parts" \in DOMAIN jsonBox.doc
       /\ DOMAIN jsonBox.doc.parts = PartKeys /\ jsonBox.doc.parts["head"] = "broken"
    \/ /\ variant = "simulator"
       /\ Len(log) > 0 /\ log[Len(log)].kind = "PART"
       /\ simParts # Undefined /\ simParts["head"] = "ok" /\ simParts["legR"] = "damaged"
       /\ simJsonBox.text = "json" /\ "parts" \in DOMAIN simJsonBox.doc
       /\ simJsonBox.doc.parts["head"] = "broken"

\* a parts mapping as the type Parts describes it
WellFormedParts(p) == DOMAIN p = PartKeys /\ \A k \in PartKeys : p[k] \in PartStates

\* C14: in every reachable state the parts mapping of the page has exactly the six
\* keys head, body, armL, armR, legL, legR, each ok, damaged or broken, whatever
\* toggles, resets, imports and restores came before.
C14_SixPartsAlways ==
    /\ variant = "sheet" => WellFormedParts(parts)
    /\ variant = "simulator" => WellFormedParts(simParts)

\* C15: a roll on a notation that does not parse changes no owned state of the page
\* (last roll, parts, character or characters, relations, scene settings, the notation
\* itself): its only effect is one log entry carrying the offending text.
C15_FailedRollOnlyLogs ==
    [][/\ (variant = "sheet" /\ parseDiceNotation(diceInput) = Null /\ onRollManual) =>
              /\ UNCHANGED <<lastRoll, parts, character, gmTables, diceInput, jsonBox>>
              /\ Len(logs') = Len(logs) + 1
              /\ logs'[1] = LogEntry("WARN", "diceError", diceInput)
              /\ SubSeq(logs', 2, Len(logs')) = logs
       /\ (variant = "simulator" /\ parse1d10(diceNotation) = Null /\ doRoll(SceneDraws)) =>
              /\ UNCHANGED <<simLastRoll, simParts, characters, relations, diceNotation,
                             sceneType, checksInScene, mode, simJsonBox, saved>>
              /\ Len(log') = Len(log) + 1
              /\ log'[Len(log')] = TextEntry("DICE", "diceError", diceNotation)
              /\ SubSeq(log', 1, Len(log)) = log]_vars

\* a roll has just failed to parse while a last roll is stored, a part is damaged and
\* the character is not the default one
C15_Witness ==
    \/ /\ variant = "sheet"
       /\ Len(logs) > 0 /\ logs[1].what = "diceError"
       /\ lastRoll # Null /\ parts["head"] = "damaged" /\ character.diceBonus = 2
    \/ /\ variant = "simulator"
       /\ Len(log) > 0 /\ log[Len(log)].kind = "DICE" /\ log[Len(log)].ev = "diceError"
       /\ simLastRoll # Undefined /\ simParts["head"] = "damaged"
       /\ Len(characters) = 1 /\ characters[1].madness = 3

\* the roster with the treasure count and the madness of its i-th character replaced
WithTreasureAndMadness(i, count, m) ==
    [characters EXCEPT ![i] = [@ EXCEPT !.treasureCount = count, !.madness = m]]

\* C16 as stated: a loss while treasure is held leaves the character without
\* treasure and adds 2 to the madness (at most 10); without treasure nothing changes.
C16_LossAddsTwo ==
    [][loseTreasure =>
          \E i \in 1..Len(characters) :
             IF characters[i].treasureCount > 0
             THEN characters' = WithTreasureAndMadness(i, 0,
                                    IF characters[i].madness + 2 > 10 THEN 10
                                    ELSE characters[i].madness + 2)
             ELSE characters' = characters]_vars

\* C16: a treasure loss takes effect only while the character's treasure count is
\* positive; it then takes one treasure away (count - 1) and adds 1 to the madness
\* (at most 10), every other character being untouched; with no treasure left the
\* operation changes neither count nor madness and only logs the attempt.
C16_LossTakesOneAddsOne ==
    [][loseTreasure =>
          \E i \in 1..Len(characters) :
             IF characters[i].treasureCount > 0
             THEN characters' = WithTreasureAndMadness(i, characters[i].treasureCount - 1,
                                    IF characters[i].madness + 1 > 10 THEN 10
                                    ELSE characters[i].madness + 1)
             ELSE /\ characters' = characters
                  /\ log' = Append(log, SimEntry("SIM", "noTreasure", characters[i].id, "", 0))]_vars

\* a treasure has just been lost by a character who still holds two and whose
\* madness is now 10
C16_Witness ==
    /\ Len(characters) = 1
    /\ Len(log) > 1
    /\ log[Len(log)].ev = "collapse"
    /\ log[Len(log) - 1].ev = "treasureLost"
    /\ characters[1].treasureCount = 2 /\ characters[1].madness = 10

\* a text of the save/load box that holds every key buildState writes
SheetExported(t) ==
    t.text = "json" /\ {"parts", "logs", "character", "gmTables"} \subseteq DOMAIN t.doc

\* a text of the JSON box that holds every key buildSaveData writes but the optional one
SimExported(t) ==
    /\ t.text = "json"
    /\ {"version", "mode", "parts", "log", "characters", "relations", "diceNotation",
        "sceneType", "checksInScene"} \subseteq DOMAIN t.doc
    /\ t.doc.version = 1

\* C17: an export writes the current parts, character(s), relations and scene
\* settings into the box, and an import of an exported text sets each of them to the
\* value the text holds: export followed by import of the same text restores the
\* values of export time, whatever changed in between.
C17_RoundTrip ==
    [][/\ (variant = "sheet" /\ exportJson) =>
              /\ SheetExported(jsonBox')
              /\ jsonBox'.doc.parts = parts
              /\ jsonBox'.doc.character = character
              /\ jsonBox'.doc.gmTables = gmTables
       /\ (variant = "sheet" /\ SheetExported(jsonBox) /\ importJson) =>
              /\ parts' = jsonBox.doc.parts
              /\ character' = jsonBox.doc.character
              /\ gmTables' = jsonBox.doc.gmTables
       /\ (variant = "simulator" /\ exportJsonToBox) =>
              /\ SimExported(simJsonBox')
              /\ simJsonBox'.doc.parts = simParts
              /\ simJsonBox'.doc.characters = characters
              /\ simJsonBox'.doc.relations = relations
              /\ simJsonBox'.doc.sceneType = sceneType
              /\ simJsonBox'.doc.checksInScene = checksInScene
              /\ simJsonBox'.doc.mode = mode
       /\ (variant = "simulator" /\ SimExported(simJsonBox) /\ importJsonFromBox) =>
              /\ simParts' = simJsonBox.doc.parts
              /\ characters' = simJsonBox.doc.characters
              /\ relations' = simJsonBox.doc.relations
              /\ sceneType' = simJsonBox.doc.sceneType
              /\ checksInScene' = simJsonBox.doc.checksInScene
              /\ mode' = simJsonBox.doc.mode]_vars

\* an exported text has just been imported and none of what it restored is a default
C17_Witness ==
    \/ /\ variant = "sheet"
       /\ Len(logs) > 0 /\ logs[1].what = "imported"
       /\ SheetExported(jsonBox)
       /\ parts = jsonBox.doc.parts /\ parts # defaultParts
       /\ character = jsonBox.doc.character /\ character.diceBonus = 2
       /\ Len(gmTables) = 2
    \/ /\ variant = "simulator"
       /\ Len(log) > 0 /\ log[Len(log)].ev = "imported"
       /\ SimExported(simJsonBox)
       /\ simParts = simJsonBox.doc.parts /\ simParts # defaultParts
       /\ Len(characters) = 2 /\ DOMAIN relations # {}
       /\ sceneType = "horror" /\ mode = "run"

\* the localStorage item holds the parts, logs, character and GM tables of the page
SnapshotCurrent ==
    variant = "sheet" =>
        /\ storage.text = "json"
        /\ storage.doc.parts = parts
        /\ storage.doc.logs = logs
        /\ storage.doc.character = character
        /\ storage.doc.gmTables = gmTables

\* C18: on the character sheet the localStorage snapshot equals the current parts,
\* logs, character and GM tables after every step, and a page started on a valid
\* snapshot ends with the parts, the character and the GM tables of that snapshot.
C18_AutoSaveSurvivesReload ==
    /\ SnapshotCurrent
    /\ [][/\ SnapshotCurrent'
          /\ (variant = "sheet" /\ SheetExported(storage) /\ Reload) =>
                 /\ parts' = storage.doc.parts
                 /\ character' = storage.doc.character
                 /\ gmTables' = storage.doc.gmTables]_vars

\* the page has just been started again on a snapshot that holds a damaged part, a
\* non-zero dice bonus and a second GM table
C18_Witness ==
    /\ variant = "sheet"
    /\ defaultTableId > 0
    /\ Len(logs) > 0 /\ logs[1].what = "restored"
    /\ parts["head"] = "damaged" /\ character.diceBonus = 2 /\ Len(gmTables) = 2
    /\ jsonBox = EmptyText /\ lastRoll = Null

\* the check before checks[i] is an action check
AfterAction(i) == i > 1 /\ checks[i - 1].kind = "action"

\* the check after checks[i] is a madness check of the same character
MadnessFollows(i) ==
    /\ i < Len(checks)
    /\ checks[i + 1].kind = "madness"
    /\ checks[i + 1].c.id = checks[i].c.id

\* C19: in a scene run the kind of check follows from the scene type alone.  A horror
\* scene resolves madness checks only, each 1d10 + the mentalMod of its character.
\* Any other scene opens every beat with an unmodified 1d10 action check, and a
\* madness check (1d10 + mentalMod) of the same character follows it if and only if
\* the action check ended in failure or critical failure.
C19_KindByScene ==
    SceneJustRan =>
        /\ log[SceneStart].out = sceneType
        /\ \A i \in 1..Len(checks) :
              /\ checks[i].die \in 1..10
              /\ checks[i].kind = "madness" =>
                    checks[i].total = checks[i].die + checks[i].c.mentalMod
              /\ checks[i].kind = "action" =>
                    /\ checks[i].total = checks[i].die
                    /\ sceneType # "horror"
                    /\ (checks[i].out \in {"failure", "critFailure"}) <=> MadnessFollows(i)
              /\ (checks[i].kind = "madness" /\ sceneType # "horror") => AfterAction(i)
        /\ sceneType # "horror" => checks[1].kind = "action"

\* a scene that is not a horror scene has just run; an action check of it failed
\* critically and the madness check that followed was rolled with a modifier, another
\* action check succeeded and no madness check followed it
C19_Witness ==
    /\ SceneJustRan
    /\ sceneType = "battle"
    /\ \E i \in 1..(Len(checks) - 1) :
          /\ checks[i].kind = "action" /\ checks[i].out = "critFailure"
          /\ checks[i + 1].kind = "madness"
          /\ checks[i + 1].total = checks[i + 1].die + 3
    /\ \E i \in 1..Len(checks) :
          /\ checks[i].kind = "action" /\ checks[i].out = "critSuccess"
          /\ ~MadnessFollows(i)

\* the stored last roll adds up
LastRollSums == lastRoll # Null => lastRoll.total = Sum(lastRoll.rolls) + lastRoll.modifier

C21_JudgeTotalIsDicePlusBonuses ==
    [][\A key \in JudgeKeys :
          (parseDiceNotation(character.judgePresets[key].base) # Null /\ rollJudge(key)) =>
              /\ lastRoll' # Null
              /\ lastRoll'.total = Sum(lastRoll'.rolls) + character.diceBonus
                                       + character.judgePresets[key].bonus]_vars

(***************************************************************************)
(* The session log of the character sheet under every handler that writes  *)
(* to it                                                                   *)
(***************************************************************************)
LogNext ==
    \/ togglePart({"head"})
    \/ SetDiceInput({<<"0", "d", "6">>})
    \/ onRollManual
    \/ \E key \in JudgeKeys : rollJudge(key)
    \/ gmAddNewTable
    \/ gmDeleteTable
    \/ SetJsonBox({Garbage})
    \/ exportJson
    \/ importJson
    \/ resetAll
    \/ clearLog

SpecLog == RollInit /\ [][LogNext]_vars

\* a step of one of the handlers behind a part click, a dice roll, a judge roll,
\* a save or load button or a GM table button
LoggingStep ==
    \/ togglePart({"head"})
    \/ onRollManual
    \/ \E key \in JudgeKeys : rollJudge(key)
    \/ gmAddNewTable
    \/ gmDeleteTable
    \/ exportJson
    \/ importJson

\* older is what stands below the first entry of newer
OnTopOf(newer, older) == Len(newer) = Len(older) + 1 /\ Tail(newer) = older

\* C22 as stated: each of those operations adds an entry on top of everything that
\* was logged before, so that all earlier entries stay in the log below it.
C22_EveryEntryStaysBelow ==
    [][LoggingStep => OnTopOf(logs', logs)]_vars

\* the log of an exported text, which an import puts back
LoadedLogs == IF "logs" \in DOMAIN jsonBox.doc THEN jsonBox.doc.logs ELSE <<>>

\* C22: each part click, dice roll, judge roll, export, import and GM table event
\* changes the log, and every change of the log puts one new entry on top.  Below it
\* stands the log as it was, except after an import that succeeds: then the log of
\* the imported text stands below the new LOAD entry and the entries logged since
\* the export are gone.  clearLog and resetAll replace the log by one and two fresh
\* entries.
C22_NewestOnTop ==
    [][IF logs' = logs
       THEN ~LoggingStep
       ELSE \/ OnTopOf(logs', logs) /\ logs'[1].tag \in {"PART", "DICE", "WARN", "GM", "SAVE"}
            \/ /\ jsonBox.text = "json"
               /\ logs'[1].tag = "LOAD"
               /\ OnTopOf(logs', LoadedLogs)
            \/ logs' = <<LogEntry("SYSTEM", "logCleared", <<>>)>>
            \/ logs' = <<LogEntry("SYSTEM", "resetAll", <<>>),
                         LogEntry("SYSTEM", "sessionStart", <<>>)>>]_vars

\* an import has just put its entry on top of the log of the text it loaded; the
\* entry of the roll made since the export is no longer in the log
C22_Witness ==
    /\ Len(logs) = 2 /\ logs[1].tag = "LOAD"
    /\ jsonBox.text = "json" /\ Tail(logs) = jsonBox.doc.logs
    /\ logs[2].what = "sessionStart"
    /\ lastRoll # Null

\* the madness a check must leave, told from the outcome it logged
MadnessByOutcome(check) ==
    IF check.out \in {"failure", "critFailure"}
    THEN (IF check.c.madness + 1 > 10 THEN 10 ELSE check.c.madness + 1)
    ELSE check.c.madness

\* every madness check resolved by the last handler set the madness its outcome calls
\* for, and its outcome follows the die and the modified total
ChecksAgree ==
    \A i \in 1..Len(checks) :
        checks[i].kind = "madness" =>
            /\ checks[i].after = MadnessByOutcome(checks[i])
            /\ checks[i].die = 10 => checks[i].after = checks[i].c.madness
            /\ checks[i].die = 1 => checks[i].out = "critFailure"
            /\ checks[i].die \in 2..9 =>
                  (checks[i].out = "success" <=> checks[i].die + checks[i].c.mentalMod >= 6)

\* the roster with the madness of the character of that id replaced
RosterWithMadness(id, m) ==
    [i \in 1..Len(characters) |->
        IF characters[i].id = id THEN [characters[i] EXCEPT !.madness = m] ELSE characters[i]]

OneD10Counts == {Omitted, 1, 2}
OneD10Sides == {6, 10, 100}
OneD10Mods == {0, 2, MaxModInput}

\* the notation field holds a typed text; typed remembers how it was typed
NotationInit ==
    /\ characters = <<newCharacter(1)>>
    /\ nextId = 2
    /\ sceneType = "explore"
    /\ checksInScene = 3
    /\ mode = "setup"
    /\ log = <<SimEntry("SYS", "sessionStart", 0, "", 0)>>
    /\ checks = <<>>
    /\ simParts = defaultParts
    /\ relations = NoRelations
    /\ relA = 1
    /\ relB = NoId
    /\ simLastRoll = Undefined
    /\ simJsonBox = EmptyText
    /\ saved = NoItem
    /\ \E c \in OneD10Counts, s \in OneD10Sides, sign \in ModSigns, k \in OneD10Mods,
          style \in Styles, damage \in Damages :
          /\ typed = [count |-> c, sides |-> s, sign |-> sign, k |-> k,
                      style |-> style, damage |-> damage]
          /\ diceNotation = TypedText(c, s, sign, k, style, damage)
    /\ text = <<>> /\ parsed = Null /\ reparsed = Null /\ ppc = "idle"
    /\ SheetInit
    /\ variant = "simulator"

NotationNext ==
    \/ doRoll(AllDraws)
    \/ clearLogSim

Spec1d10 == NotationInit /\ [][NotationNext]_vars

\* the typed text is 1d10, 1d10+K or 1d10-K, in either case and with or without blanks
Typed1d10 ==
    /\ typed.damage = "none"
    /\ typed.style # "zeros"
    /\ typed.count = 1
    /\ typed.sides = 10

MaxRoster == 3     \* the roster is not grown beyond this under SpecRel
MaxRelIds == 4     \* uid() hands out ids up to this under SpecRel
SavedLevels == {"trust", "hostile"}

RelNext ==
    \/ addCharacter(MaxRoster, MaxRelIds)
    \/ removeCharacter
    \/ startRun
    \/ backToSetup
    \/ SetRelA
    \/ SetRelB
    \/ saveRelation(SavedLevels)
    \/ clearLogSim

SpecRel == Init /\ [][RelNext]_vars

RosterIds(chars) == {chars[i].id : i \in 1..Len(chars)}

\* after is before without its i-th character, the others in their order and unchanged
WithoutIth(before, after, i) ==
    /\ Len(after) = Len(before) - 1
    /\ \A j \in 1..Len(after) : after[j] = IF j < i THEN before[j] ELSE before[j + 1]

\* after holds the entries of before whose key does not name id, and nothing else
WithoutKeysOf(before, after, id) ==
    /\ \A k \in DOMAIN before : (k \in DOMAIN after) <=> (id # k[1] /\ id # k[2])
    /\ \A k \in DOMAIN after : k \in DOMAIN before /\ after[k] = before[k]

\* C25: removeCharacter(id) takes exactly the character id out of the roster and exactly
\* the relations whose key names id out of the map; every other character and every
\* relation between two other ids stays as it was.
C25_RemovesExactlyOne ==
    [][removeCharacter =>
           \E i \in 1..Len(characters) :
              /\ WithoutIth(characters, characters', i)
              /\ characters[i].id \notin RosterIds(characters')
              /\ WithoutKeysOf(relations, relations', characters[i].id)]_vars

\* a character was removed last, and the relation of the two who stay is still there
C25_Witness ==
    /\ Len(characters) = 2
    /\ nextId = 4
    /\ Len(log) >= 1 /\ log[Len(log)].ev = "characterRemoved"
    /\ relKey(characters[1].id, characters[2].id) \in DOMAIN relations
    /\ Cardinality(DOMAIN relations) = 1

\* C27: every key of the relations map names two different characters of the roster
\* (one entry per unordered pair: relKey(a, b) = relKey(b, a)), whatever sequence of
\* addCharacter, removeCharacter, select changes and saveRelation led here.
C27_RelationsNameRoster ==
    /\ \A a, b \in 1..MaxRelIds : relKey(a, b) = relKey(b, a)
    /\ \A k \in DOMAIN relations :
          /\ k[1] # k[2]
          /\ k[1] \in RosterIds(characters)
          /\ k[2] \in RosterIds(characters)

\* the madness checks of the last handler that the character id failed
FailedChecks(id) ==
    {j \in 1..Len(checks) : /\ checks[j].kind = "madness"
                            /\ checks[j].c.id = id
                            /\ checks[j].out \in {"failure", "critFailure"}}

\* C26: no madness increment of a scene run is lost: a character who entered the run
\* with madness m0 and failed k madness checks in it leaves it with min(10, m0 + k),
\* also when picked for several beats.
C26_NoIncrementLost ==
    SceneJustRan =>
        \A i \in 1..Len(characters) :
            \A j \in FailedChecks(characters[i].id) :
                characters[i].madness =
                    clamp(checks[j].c.madness + Cardinality(FailedChecks(characters[i].id)), 0, 10)

====
